---- MODULE Spec2Model ----
(***************************************************************************)
(* A model of code-gen: the analysis-driven pipeline (analyzer, generator, *)
(* file writer) and the config-driven pipeline (project structure, file    *)
(* writer with its skip/backup/force policy).                              *)
(*                                                                         *)
(* Go strings are modelled as sequences of one-character strings, so that  *)
(* prefix, suffix and substring tests are computed as the code computes    *)
(* them.                                                                   *)
(***************************************************************************)
EXTENDS Integers, Sequences, FiniteSets, TLC

VARIABLES
    \* ---- naming rules applied to one interface name
    nm,          \* the interface name under classification
    nmLayer,     \* result of Analyzer.determineLayer
    nmBase,      \* result of Analyzer.extractBaseName
    nmGenBase,   \* result of Generator.extractBaseName
    nmDone,      \* which of the operations have been applied
    \* ---- one type expression of a method signature
    ty,          \* the ast.Expr of the type
    tyText,      \* result of Analyzer.typeToString
    tyZero,      \* result of Generator.generateZeroValue
    tyDone,      \* which of the operations have been applied
    \* ---- the analysis-driven pipeline (analyzer, generator)
    files,       \* the project: for each source file of the walk, its state
    walkIdx,     \* position of filepath.Walk: the next file to visit
    Interfaces,  \* ProjectInfo.Interfaces: name -> InterfaceInfo
    Structs,     \* ProjectInfo.Structs: name -> StructInfo
    log,         \* the lines logged at warning level or above
    pc,          \* where the run is
    impls,       \* per interface, the generated implementation
    factory,     \* per interface, the generated factory method
    \* ---- the config-driven pipeline (internal/generator)
    cfgFile,     \* the project description file: its state and content
    options,     \* GeneratorOptions: SkipExisting, CreateBackup, Force
    fs,          \* the files under the output directory: path -> content
    dirs,        \* the directories under the output directory
    fs0,         \* the files as they were before the run
    gpc,         \* where the run is
    calls,       \* the writeFile calls generateAll has still to make
    targets,     \* the paths writeFile has been called for
    written,     \* the paths os.WriteFile has written in this run
    last,        \* the most recent writeFile call and what it did
    \* ---- the analysis-driven pipeline: output stage (main, writeFiles)
    results,     \* the GeneratedFile list returned by Generator.Generate
    flags,       \* the flags -dry-run and -force
    env0,        \* the output directory as the output stage finds it
    out,         \* the output directory now
    report,      \* what the output stage did and reported
    \* ---- the analyzer applied to one file header and to one method
    tagsArg,     \* the value of the flag -tags
    srcLines,    \* the lines of a source file
    included,    \* result of Analyzer.shouldIncludeFile
    funcType,    \* the ast.FuncType of an interface method
    methodInfo,  \* result of Analyzer.extractMethodInfo
    \* ---- the walk filter, one method stub, and the command init
    walkPath,    \* a path filepath.Walk hands to the callback
    walked,      \* what the callback did with the path
    stub,        \* the return statement Generator.writeMethodBody wrote
    answers,     \* the lines typed at the prompts of init
    cta          \* the configuration init saved to cta.json

varsN == <<nm, nmLayer, nmBase, nmGenBase, nmDone>>
varsT == <<ty, tyText, tyZero, tyDone>>
varsB == <<files, walkIdx, Interfaces, Structs, log, pc, impls, factory>>

varsA == <<cfgFile, options, fs, dirs, fs0, gpc, calls, targets, written, last>>

varsW == <<results, flags, env0, out, report>>

varsM == <<tagsArg, srcLines, included, funcType, methodInfo>>

varsP == <<walkPath, walked, stub, answers, cta>>

vars == <<varsN, varsT, varsB, varsA, varsW, varsM, varsP>>

----------------------------------------------------------------------------
(* Bounds *)

\* how many name fragments an interface name is built from
MaxNameParts == 2

\* how deeply type expressions nest
MaxTypeDepth == 1

\* how many source files the analysed project may hold
NumFiles == 6

\* how many entities, and at most how many repositories, a domain of the
\* project description has
MaxRepos == 1

----------------------------------------------------------------------------
(* Character strings *)

s_repo == <<"r","e","p","o">>
s_repository == <<"r","e","p","o","s","i","t","o","r","y">>
s_usecase == <<"u","s","e","c","a","s","e">>
s_use_case == <<"u","s","e","_","c","a","s","e">>
s_handler == <<"h","a","n","d","l","e","r">>
s_controller == <<"c","o","n","t","r","o","l","l","e","r">>
s_service == <<"s","e","r","v","i","c","e">>
s_Handler == <<"H","a","n","d","l","e","r">>
s_Controller == <<"C","o","n","t","r","o","l","l","e","r">>
s_UseCase == <<"U","s","e","C","a","s","e">>
s_Service == <<"S","e","r","v","i","c","e">>
s_Repo == <<"R","e","p","o">>
s_Repository == <<"R","e","p","o","s","i","t","o","r","y">>
s_User == <<"U","s","e","r">>
s_Product == <<"P","r","o","d","u","c","t">>
s_Use_Case == <<"U","s","e","_","C","a","s","e">>
s_REPO == <<"R","E","P","O">>
s_x == <<"x">>
s_New == <<"N","e","w">>
s_interfaceBraces == <<"i","n","t","e","r","f","a","c","e","{","}">>
s_funcDots == <<"f","u","n","c","(",".",".",".",")">>
s_mapOpen == <<"m","a","p","[">>
s_closeBracket == <<"]">>
s_chanSp == <<"c","h","a","n"," ">>
s_ellipsis == <<".",".",".">>
s_star == <<"*">>
s_brackets == <<"[","]">>
s_dot == <<".">>
s_error == <<"e","r","r","o","r">>
s_string == <<"s","t","r","i","n","g">>
s_int == <<"i","n","t">>
s_uint == <<"u","i","n","t">>
s_float32 == <<"f","l","o","a","t","3","2">>
s_float64 == <<"f","l","o","a","t","6","4">>
s_bool == <<"b","o","o","l">>
s_nil == <<"n","i","l">>
s_zero == <<"0">>
s_false == <<"f","a","l","s","e">>
s_quotes == <<"\"","\"">>
s_braces == <<"{","}">>
s_interface == <<"i","n","t","e","r","f","a","c","e">>
s_int8 == <<"i","n","t","8">>
s_int16 == <<"i","n","t","1","6">>
s_int32 == <<"i","n","t","3","2">>
s_int64 == <<"i","n","t","6","4">>
s_uint8 == <<"u","i","n","t","8">>
s_uint16 == <<"u","i","n","t","1","6">>
s_uint32 == <<"u","i","n","t","3","2">>
s_uint64 == <<"u","i","n","t","6","4">>
s_uintptr == <<"u","i","n","t","p","t","r">>
s_context == <<"c","o","n","t","e","x","t">>
s_Context == <<"C","o","n","t","e","x","t">>
s_time == <<"t","i","m","e">>
s_Time == <<"T","i","m","e">>
s_recvChanSp == <<"<","-","c","h","a","n"," ">>
s_chanSendSp == <<"c","h","a","n","<","-"," ">>
s_funcOpen == <<"f","u","n","c","(">>
s_dbSqlDB == <<"d","b"," ","*","s","q","l",".","D","B">>
s_sqlDBType == <<"*","s","q","l",".","D","B">>
s_db == <<"d","b">>
s_f_db == <<"f",".","d","b">>
s_repoSp == <<"r","e","p","o"," ">>
s_useCaseSp == <<"u","s","e","C","a","s","e"," ">>
s_useCaseVar == <<"u","s","e","C","a","s","e">>
s_sp == <<" ">>
s_Order == <<"O","r","d","e","r">>
s_f_New == <<"f",".","N","e","w">>
s_underscore == <<"_">>
s_callParens == <<"(",")">>

UpperChars ==
    <<"A","B","C","D","E","F","G","H","I","J","K","L","M",
      "N","O","P","Q","R","S","T","U","V","W","X","Y","Z">>

LowerChars ==
    <<"a","b","c","d","e","f","g","h","i","j","k","l","m",
      "n","o","p","q","r","s","t","u","v","w","x","y","z">>

\* strings.ToLower on one (ASCII) character
toLowerChar(c) ==
    IF \E i \in 1..Len(UpperChars) : UpperChars[i] = c
    THEN LowerChars[CHOOSE i \in 1..Len(UpperChars) : UpperChars[i] = c]
    ELSE c

\* strings.ToLower
ToLower(s) == [i \in 1..Len(s) |-> toLowerChar(s[i])]

\* strings.HasPrefix
HasPrefix(s, p) == Len(p) <= Len(s) /\ SubSeq(s, 1, Len(p)) = p

\* strings.HasSuffix
HasSuffix(s, p) ==
    Len(p) <= Len(s) /\ SubSeq(s, Len(s) - Len(p) + 1, Len(s)) = p

\* strings.Contains
Contains(s, sub) ==
    \E i \in 0..(Len(s) - Len(sub)) : SubSeq(s, i + 1, i + Len(sub)) = sub

\* strings.TrimSuffix
TrimSuffix(s, p) ==
    IF HasSuffix(s, p) THEN SubSeq(s, 1, Len(s) - Len(p)) ELSE s

Min(S) == CHOOSE x \in S : \A y \in S : x <= y

----------------------------------------------------------------------------
(* types.LayerType *)

RepositoryLayer == "repository"
UseCaseLayer == "usecase"
HandlerLayer == "handler"
ServiceLayer == "service"

LayerType == {RepositoryLayer, UseCaseLayer, HandlerLayer, ServiceLayer}

----------------------------------------------------------------------------
(* Analyzer: naming rules *)

\* A plausible slip: the service test placed ahead of the repository test.
determineLayerServiceFirst(interfaceName) ==
    LET name == ToLower(interfaceName) IN
    IF Contains(name, s_service) THEN ServiceLayer
    ELSE IF Contains(name, s_repo) \/ Contains(name, s_repository)
    THEN RepositoryLayer
    ELSE IF Contains(name, s_usecase) \/ Contains(name, s_use_case)
    THEN UseCaseLayer
    ELSE IF Contains(name, s_handler) \/ Contains(name, s_controller)
    THEN HandlerLayer
    ELSE ServiceLayer

\* Analyzer.determineLayer
determineLayer(interfaceName) ==
    LET name == ToLower(interfaceName) IN
    IF Contains(name, s_repo) \/ Contains(name, s_repository)
    THEN RepositoryLayer
    ELSE IF Contains(name, s_usecase) \/ Contains(name, s_use_case)
    THEN UseCaseLayer
    ELSE IF Contains(name, s_handler) \/ Contains(name, s_controller)
    THEN HandlerLayer
    ELSE IF Contains(name, s_service)
    THEN ServiceLayer
    ELSE ServiceLayer

\* the suffix list of both extractBaseName functions, in the code's order
suffixes ==
    <<s_Handler, s_Controller, s_UseCase, s_Service, s_Repo, s_Repository>>

\* the loop "for _, suffix := range list { if HasSuffix { return TrimSuffix } }"
RECURSIVE firstSuffixTrim(_, _, _)
firstSuffixTrim(name, list, i) ==
    IF i > Len(list) THEN name
    ELSE IF HasSuffix(name, list[i]) THEN TrimSuffix(name, list[i])
    ELSE firstSuffixTrim(name, list, i + 1)

\* A plausible slip: the loop keeps trimming instead of returning.
RECURSIVE everySuffixTrim(_, _, _)
everySuffixTrim(name, list, i) ==
    IF i > Len(list) THEN name
    ELSE everySuffixTrim(TrimSuffix(name, list[i]), list, i + 1)

extractBaseNameNoReturn(interfaceName) ==
    everySuffixTrim(interfaceName, suffixes, 1)

\* Analyzer.extractBaseName
extractBaseName(interfaceName) == firstSuffixTrim(interfaceName, suffixes, 1)

\* Generator.extractBaseName (a second copy of the same function)
generatorExtractBaseName(interfaceName) ==
    firstSuffixTrim(interfaceName, suffixes, 1)

----------------------------------------------------------------------------
(* Values of the variables of a pipeline that a specification leaves idle *)

IdleN ==
    /\ nm = <<>>
    /\ nmLayer = ""
    /\ nmBase = <<>>
    /\ nmGenBase = <<>>
    /\ nmDone = {}

IdleT ==
    /\ ty = [kind |-> "none"]
    /\ tyText = <<>>
    /\ tyZero = <<>>
    /\ tyDone = {}

IdleB ==
    /\ files = <<>>
    /\ walkIdx = 0
    /\ Interfaces = <<>>
    /\ Structs = <<>>
    /\ log = <<>>
    /\ pc = "idle"
    /\ impls = <<>>
    /\ factory = <<>>

\* the output stage of the analysis-driven pipeline has not begun
IdleW ==
    /\ results = <<>>
    /\ flags = [dryRun |-> FALSE, force |-> FALSE]
    /\ env0 = [files |-> <<>>, dir |-> FALSE, denied |-> {}]
    /\ out = [files |-> <<>>, dir |-> FALSE]
    /\ report = [trace |-> <<>>, written |-> 0, skipped |-> 0, listing |-> <<>>]

\* no file header and no method is under analysis
IdleM ==
    /\ tagsArg = <<>>
    /\ srcLines = <<>>
    /\ included = [done |-> FALSE, value |-> FALSE]
    /\ funcType = [Params |-> <<>>, Results |-> <<>>]
    /\ methodInfo = [done |-> FALSE]

\* no path is filtered, no stub written, and init is not running
IdleP ==
    /\ walkPath = <<>>
    /\ walked = [done |-> FALSE]
    /\ stub = [done |-> FALSE]
    /\ answers = [dbChoice |-> <<>>, domainCount |-> <<>>]
    /\ cta = [done |-> FALSE]

\* the config-driven pipeline is not running
IdleA ==
    /\ cfgFile = [state |-> "none"]
    /\ options = [SkipExisting |-> TRUE, CreateBackup |-> FALSE, Force |-> FALSE]
    /\ fs = <<>>
    /\ dirs = {}
    /\ fs0 = <<>>
    /\ gpc = "idle"
    /\ calls = <<>>
    /\ targets = {}
    /\ written = {}
    /\ last = [target |-> <<>>, existed |-> FALSE, wrote |-> FALSE,
               before |-> "", err |-> FALSE]

----------------------------------------------------------------------------
(* Specification SpecNames: the naming rules on every bounded name *)

\* fragments interface names are assembled from
Fragments ==
    {s_User, s_Repo, s_Repository, s_UseCase, s_Service, s_Handler,
     s_Controller, s_Use_Case, s_REPO, s_x}

RECURSIVE Concat(_)
Concat(parts) ==
    IF parts = <<>> THEN <<>> ELSE Head(parts) \o Concat(Tail(parts))

Names ==
    {Concat(ps) : ps \in UNION {[1..k -> Fragments] : k \in 1..MaxNameParts}}

InitNames ==
    /\ nm \in Names
    /\ nmLayer = ""
    /\ nmBase = <<>>
    /\ nmGenBase = <<>>
    /\ nmDone = {}
    /\ IdleT
    /\ IdleB
    /\ IdleA
    /\ IdleW
    /\ IdleM
    /\ IdleP

ClassifyName ==
    /\ "layer" \notin nmDone
    /\ nmLayer' = determineLayer(nm)
    /\ nmDone' = nmDone \cup {"layer"}
    /\ UNCHANGED <<nm, nmBase, nmGenBase, varsT, varsB, varsA, varsW, varsM, varsP>>

ExtractName ==
    /\ "base" \notin nmDone
    /\ nmBase' = extractBaseName(nm)
    /\ nmGenBase' = generatorExtractBaseName(nm)
    /\ nmDone' = nmDone \cup {"base"}
    /\ UNCHANGED <<nm, nmLayer, varsT, varsB, varsA, varsW, varsM, varsP>>

NextNames == ClassifyName \/ ExtractName

SpecNames == InitNames /\ [][NextNames]_vars

----------------------------------------------------------------------------
(* C1, C2 *)

\* the claim's reading of "contains, case-insensitively": some position of
\* the name carries the pattern letter by letter, ignoring case
ContainsFold(name, pat) ==
    \E i \in 0..(Len(name) - Len(pat)) :
        \A j \in 1..Len(pat) : toLowerChar(name[i + j]) = pat[j]

\* C1: the layer of a name is one of the four layers and is decided by
\* case-insensitive substring match with precedence
\* repo > usecase/use_case > handler/controller > service > default.
C1_LayerPrecedence ==
    "layer" \in nmDone =>
        LET repo == ContainsFold(nm, s_repo)
            uc   == ContainsFold(nm, s_usecase) \/ ContainsFold(nm, s_use_case)
            hd   == ContainsFold(nm, s_handler) \/ ContainsFold(nm, s_controller)
        IN  /\ nmLayer \in LayerType
            /\ repo => nmLayer = RepositoryLayer
            /\ (~repo /\ uc) => nmLayer = UseCaseLayer
            /\ (~repo /\ ~uc /\ hd) => nmLayer = HandlerLayer
            /\ (~repo /\ ~uc /\ ~hd) => nmLayer = ServiceLayer

C1_Witness ==
    /\ nm = s_Service \o s_Repository
    /\ "layer" \in nmDone
    /\ nmLayer = RepositoryLayer

\* the candidates a name ends with
MatchingSuffixes(name) ==
    {i \in 1..Len(suffixes) : HasSuffix(name, suffixes[i])}

\* C2: both extractBaseName functions remove at most one suffix of the list,
\* the longest candidate the name ends with; a name ending with none of the
\* candidates is returned unchanged.
C2_LongestSuffixOnce ==
    "base" \in nmDone =>
        /\ nmGenBase = nmBase
        /\ MatchingSuffixes(nm) = {} => nmBase = nm
        /\ MatchingSuffixes(nm) # {} =>
             \E i \in MatchingSuffixes(nm) :
                /\ \A k \in MatchingSuffixes(nm) :
                      Len(suffixes[k]) <= Len(suffixes[i])
                /\ nmBase \o suffixes[i] = nm

C2_Witness ==
    /\ nm = s_Repository \o s_Service
    /\ "base" \in nmDone
    /\ nmBase = s_Repository

\* C26 as stated: base-name extraction is idempotent: for every name,
\* extracting again from the result of an extraction is a no-op.
C26_Idempotent ==
    "base" \in nmDone =>
        /\ extractBaseName(nmBase) = nmBase
        /\ generatorExtractBaseName(nmGenBase) = nmGenBase

\* C26 amended: an extraction removes exactly one candidate suffix from a
\* name that ends with one and leaves every other name unchanged; extracting
\* again from the result is a no-op exactly when the result ends with no
\* candidate suffix, and removes a further suffix otherwise.
C26_IdempotentWithoutStackedSuffix ==
    "base" \in nmDone =>
        /\ MatchingSuffixes(nm) = {} => nmBase = nm /\ nmGenBase = nm
        /\ MatchingSuffixes(nm) # {} =>
               \E i \in MatchingSuffixes(nm) :
                   nmBase \o suffixes[i] = nm /\ nmGenBase = nmBase
        /\ (extractBaseName(nmBase) = nmBase) <=> (MatchingSuffixes(nmBase) = {})
        /\ (generatorExtractBaseName(nmGenBase) = nmGenBase)
               <=> (MatchingSuffixes(nmGenBase) = {})

\* a name with two stacked suffixes has been extracted from once, and a
\* second extraction would remove the other suffix
C26_Witness ==
    /\ nm = s_Handler \o s_Repository
    /\ "base" \in nmDone
    /\ nmBase = s_Handler
    /\ extractBaseName(nmBase) = <<>>

----------------------------------------------------------------------------
(* Analyzer: type expressions (go/ast nodes) and their text *)

Ident(n) == [kind |-> "Ident", Name |-> n]
SelectorExpr(x, sel) == [kind |-> "SelectorExpr", X |-> x, Sel |-> sel]
StarExpr(x) == [kind |-> "StarExpr", X |-> x]
\* len is "" for a slice ([]T, Len == nil) and the length text for an array
ArrayType(len, elt) == [kind |-> "ArrayType", Len |-> len, Elt |-> elt]
MapType(k, v) == [kind |-> "MapType", Key |-> k, Value |-> v]
InterfaceType == [kind |-> "InterfaceType"]
\* dir is the ast.ChanDir: "SEND|RECV" (chan T), "RECV" (<-chan T), "SEND"
ChanType(dir, v) == [kind |-> "ChanType", Dir |-> dir, Value |-> v]
FuncType == [kind |-> "FuncType"]
Ellipsis(elt) == [kind |-> "Ellipsis", Elt |-> elt]
\* any other node, e.g. a parenthesised type
ParenExpr(x) == [kind |-> "ParenExpr", X |-> x]

ChanDirs == {"SEND|RECV", "RECV", "SEND"}

\* Analyzer.typeToString
RECURSIVE typeToString(_)
typeToString(expr) ==
    CASE expr.kind = "Ident" -> expr.Name
      [] expr.kind = "SelectorExpr" ->
            typeToString(expr.X) \o s_dot \o expr.Sel
      [] expr.kind = "StarExpr" -> s_star \o typeToString(expr.X)
      [] expr.kind = "ArrayType" -> s_brackets \o typeToString(expr.Elt)
      [] expr.kind = "MapType" ->
            s_mapOpen \o typeToString(expr.Key) \o s_closeBracket
                \o typeToString(expr.Value)
      [] expr.kind = "InterfaceType" -> s_interfaceBraces
      [] expr.kind = "ChanType" -> s_chanSp \o typeToString(expr.Value)
      [] expr.kind = "FuncType" -> s_funcDots
      [] expr.kind = "Ellipsis" -> s_ellipsis \o typeToString(expr.Elt)
      [] OTHER -> s_interfaceBraces

\* Generator.generateZeroValue
generateZeroValue(typeName) ==
    IF typeName = s_error THEN s_nil
    ELSE IF typeName = s_string THEN s_quotes
    ELSE IF \/ HasPrefix(typeName, s_int) \/ HasPrefix(typeName, s_uint)
            \/ typeName = s_float32 \/ typeName = s_float64
    THEN s_zero
    ELSE IF typeName = s_bool THEN s_false
    ELSE IF \/ HasPrefix(typeName, s_star) \/ HasPrefix(typeName, s_brackets)
            \/ HasPrefix(typeName, s_mapOpen)
            \/ Contains(typeName, s_interface)
    THEN s_nil
    ELSE typeName \o s_braces

----------------------------------------------------------------------------
(* Specification SpecTypes: encoding and zero value of every bounded type *)

TypeIdents ==
    {s_int, s_int64, s_uint8, s_float64, s_string, s_error, s_bool, s_User}

MapKeys == {Ident(s_string), Ident(s_int)}

LeafTypes ==
    {Ident(n) : n \in TypeIdents}
        \cup {SelectorExpr(Ident(s_context), s_Context),
              SelectorExpr(Ident(s_time), s_Time)}
        \cup {InterfaceType, FuncType}

RECURSIVE TypeExprs(_)
TypeExprs(d) ==
    IF d = 0 THEN LeafTypes
    ELSE LET sub == TypeExprs(d - 1) IN
         sub \cup {StarExpr(x) : x \in sub}
             \cup {ArrayType(l, x) : l \in {"", "4"}, x \in sub}
             \cup {MapType(k, x) : k \in MapKeys, x \in sub}
             \cup {ChanType(dir, x) : dir \in ChanDirs, x \in sub}
             \cup {Ellipsis(x) : x \in sub}
             \cup {ParenExpr(x) : x \in sub}

InitTypes ==
    /\ ty \in TypeExprs(MaxTypeDepth)
    /\ tyText = <<>>
    /\ tyZero = <<>>
    /\ tyDone = {}
    /\ IdleN
    /\ IdleB
    /\ IdleA
    /\ IdleW
    /\ IdleM
    /\ IdleP

\* extractMethodInfo encodes the type of a parameter or result
EncodeType ==
    /\ "text" \notin tyDone
    /\ tyText' = typeToString(ty)
    /\ tyDone' = tyDone \cup {"text"}
    /\ UNCHANGED <<ty, tyZero, varsN, varsB, varsA, varsW, varsM, varsP>>

\* writeMethodBody takes the zero value of an encoded result type
ZeroValue ==
    /\ "text" \in tyDone
    /\ "zero" \notin tyDone
    /\ tyZero' = generateZeroValue(tyText)
    /\ tyDone' = tyDone \cup {"zero"}
    /\ UNCHANGED <<ty, tyText, varsN, varsB, varsA, varsW, varsM, varsP>>

NextTypes == EncodeType \/ ZeroValue

SpecTypes == InitTypes /\ [][NextTypes]_vars

----------------------------------------------------------------------------
(* C4 *)

\* index of the "]" closing the "[" that precedes position i
RECURSIVE closingBracket(_, _, _)
closingBracket(s, i, depth) ==
    IF i > Len(s) THEN 0
    ELSE IF s[i] = "[" THEN closingBracket(s, i + 1, depth + 1)
    ELSE IF s[i] = "]" THEN
        IF depth = 0 THEN i ELSE closingBracket(s, i + 1, depth - 1)
    ELSE closingBracket(s, i + 1, depth)

Drop(s, n) == SubSeq(s, n + 1, Len(s))

\* the Go parser on the text of a type: the expression the text denotes
RECURSIVE parseType(_)
parseType(s) ==
    IF HasPrefix(s, s_ellipsis) THEN Ellipsis(parseType(Drop(s, 3)))
    ELSE IF HasPrefix(s, s_star) THEN StarExpr(parseType(Drop(s, 1)))
    ELSE IF HasPrefix(s, s_brackets) THEN ArrayType("", parseType(Drop(s, 2)))
    ELSE IF HasPrefix(s, s_mapOpen) THEN
        LET close == closingBracket(s, 5, 0) IN
        MapType(parseType(SubSeq(s, 5, close - 1)), parseType(Drop(s, close)))
    ELSE IF HasPrefix(s, s_recvChanSp)
    THEN ChanType("RECV", parseType(Drop(s, Len(s_recvChanSp))))
    ELSE IF HasPrefix(s, s_chanSendSp)
    THEN ChanType("SEND", parseType(Drop(s, Len(s_chanSendSp))))
    ELSE IF HasPrefix(s, s_chanSp)
    THEN ChanType("SEND|RECV", parseType(Drop(s, Len(s_chanSp))))
    ELSE IF s = s_interfaceBraces THEN InterfaceType
    ELSE IF HasPrefix(s, s_funcOpen) THEN FuncType
    ELSE IF \E i \in 1..Len(s) : s[i] = "."
    THEN LET i == CHOOSE k \in 1..Len(s) : s[k] = "." IN
         SelectorExpr(Ident(SubSeq(s, 1, i - 1)), Drop(s, i))
    ELSE Ident(s)

\* built only from identifier, qualified name, pointer, slice, map, channel
\* and variadic
RECURSIVE SupportedShape(_)
SupportedShape(e) ==
    CASE e.kind = "Ident" -> TRUE
      [] e.kind = "SelectorExpr" -> e.X.kind = "Ident"
      [] e.kind = "StarExpr" -> SupportedShape(e.X)
      [] e.kind = "ArrayType" -> e.Len = "" /\ SupportedShape(e.Elt)
      [] e.kind = "MapType" -> SupportedShape(e.Key) /\ SupportedShape(e.Value)
      [] e.kind = "ChanType" -> SupportedShape(e.Value)
      [] e.kind = "Ellipsis" -> SupportedShape(e.Elt)
      [] OTHER -> FALSE

\* C4: for every type expression built from the supported shapes, parsing
\* the text typeToString gives yields the same expression again.
C4_RoundTrip ==
    ("text" \in tyDone /\ SupportedShape(ty)) => parseType(tyText) = ty

----------------------------------------------------------------------------
(* C5 *)

NumericTypeNames ==
    {s_int, s_int8, s_int16, s_int32, s_int64,
     s_uint, s_uint8, s_uint16, s_uint32, s_uint64, s_uintptr,
     s_float32, s_float64}

\* the rule as the claim states it
ZeroValueRule(t) ==
    IF t = s_error THEN s_nil
    ELSE IF t = s_string THEN s_quotes
    ELSE IF t \in NumericTypeNames THEN s_zero
    ELSE IF t = s_bool THEN s_false
    ELSE IF \/ HasPrefix(t, s_star) \/ HasPrefix(t, s_brackets)
            \/ HasPrefix(t, s_mapOpen) \/ Contains(t, s_interface)
    THEN s_nil
    ELSE t \o s_braces

\* C5: the zero value of every encoded type string follows the stated rule,
\* and the literal 0 is given only to a type string naming a numeric type.
C5_ZeroValueRule ==
    "zero" \in tyDone =>
        /\ tyZero = ZeroValueRule(tyText)
        /\ tyZero = s_zero => tyText \in NumericTypeNames

----------------------------------------------------------------------------
(* The analysed project *)

n_ProductHandler == s_Product \o s_Handler
n_ProductRepo == s_Product \o s_Repo
n_ProductRepository == s_Product \o s_Repository
n_ProductUseCase == s_Product \o s_UseCase
n_UserRepository == s_User \o s_Repository
n_UserService == s_User \o s_Service
n_OrderHandler == s_Order \o s_Handler
n_UserHandler == s_User \o s_Handler
n_HandlerService == s_Handler \o s_Service
n_xService == s_x \o s_Service
n_scanner == <<"s","c","a","n","n","e","r">>
n_row == <<"r","o","w">>
n_ID == <<"I","D">>

\* a type declaration of a source file: its shape (an interface type, a
\* struct type or any other type), its name, and whether it stands inside a
\* function body
TypeDecl(shape, name, nested) ==
    [shape |-> shape, name |-> name, nested |-> nested]

\* the source files the walk can meet, in the walk's (lexical) order
SourceFile(i) ==
    CASE i = 1 -> [path |-> "handler/product_handler.go",
                   decls |-> <<TypeDecl("interface", n_ProductHandler, FALSE),
                               TypeDecl("interface", n_UserHandler, FALSE)>>]
      [] i = 2 -> [path |-> "legacy/product_repo.go",
                   decls |-> <<TypeDecl("interface", n_ProductRepo, FALSE),
                               TypeDecl("interface", n_UserService, FALSE),
                               TypeDecl("interface", n_xService, FALSE)>>]
      [] i = 3 -> [path |-> "repo/product_repo.go",
                   decls |-> <<TypeDecl("interface", n_ProductRepo, FALSE)>>]
      [] i = 4 -> [path |-> "repo/product_repository.go",
                   decls |-> <<TypeDecl("struct", s_Product, FALSE),
                               TypeDecl("other", n_ID, FALSE),
                               TypeDecl("interface", n_ProductRepository, FALSE),
                               TypeDecl("struct", n_row, TRUE)>>]
      [] i = 5 -> [path |-> "usecase/product_usecase.go",
                   decls |-> <<TypeDecl("interface", n_ProductUseCase, FALSE)>>]
      [] i = 6 -> [path |-> "user/user.go",
                   decls |-> <<TypeDecl("struct", s_User, FALSE),
                               TypeDecl("interface", n_UserRepository, FALSE),
                               TypeDecl("interface", n_scanner, TRUE),
                               TypeDecl("interface", n_HandlerService, FALSE)>>]
      [] OTHER -> [path |-> "zorder/order_handler.go",
                   decls |-> <<TypeDecl("interface", n_OrderHandler, FALSE)>>]

\* what a source file is to the analyzer: not there, readable and well
\* formed, readable but syntactically invalid, or not readable
FileStates == {"absent", "ok", "unparsable", "unreadable"}

\* m[k] = v on a Go map
Put(m, k, v) == [x \in (DOMAIN m) \cup {k} |-> IF x = k THEN v ELSE m[x]]

----------------------------------------------------------------------------
(* Analyzer *)

\* Analyzer.extractInterface (the methods of the interface are not modelled)
extractInterface(name, filePath, ifs) ==
    Put(ifs, name, [Name |-> name,
                    FilePath |-> filePath,
                    Layer |-> determineLayer(name),
                    RelatedInterfaces |-> {}])

\* Analyzer.extractStruct (the fields of the struct are not modelled)
extractStruct(name, filePath, sts) ==
    Put(sts, name, [Name |-> name, FilePath |-> filePath])

\* ast.Inspect over the file with Analyzer.processTypeDeclaration on every
\* type declaration it meets: the interfaces and structs after the file
RECURSIVE processTypeDeclarations(_, _, _, _, _)
processTypeDeclarations(decls, i, filePath, ifs, sts) ==
    IF i > Len(decls) THEN [Interfaces |-> ifs, Structs |-> sts]
    ELSE IF decls[i].shape = "interface"
    THEN processTypeDeclarations(decls, i + 1, filePath,
             extractInterface(decls[i].name, filePath, ifs), sts)
    ELSE IF decls[i].shape = "struct"
    THEN processTypeDeclarations(decls, i + 1, filePath,
             ifs, extractStruct(decls[i].name, filePath, sts))
    ELSE processTypeDeclarations(decls, i + 1, filePath, ifs, sts)

\* A plausible slip: a parse failure is returned as an error.
analyzeFileParseFatal(f, state, ifs, sts, lg) ==
    LET file == SourceFile(f) IN
    IF state = "unreadable" \/ state = "unparsable"
    THEN [err |-> TRUE, Interfaces |-> ifs, Structs |-> sts, log |-> lg]
    ELSE LET r == processTypeDeclarations(file.decls, 1, file.path, ifs, sts)
         IN  [err |-> FALSE, Interfaces |-> r.Interfaces,
              Structs |-> r.Structs, log |-> lg]

\* Analyzer.analyzeFile, of an analyzer built without build tags (the
\* default): shouldIncludeFile returns true for every file
analyzeFile(f, state, ifs, sts, lg) ==
    LET file == SourceFile(f) IN
    IF state = "unreadable"
    THEN [err |-> TRUE, Interfaces |-> ifs, Structs |-> sts, log |-> lg]
    ELSE IF state = "unparsable"
    THEN [err |-> FALSE, Interfaces |-> ifs, Structs |-> sts,
          log |-> Append(lg, <<"WARNING", "Failed to parse", file.path>>)]
    ELSE LET r == processTypeDeclarations(file.decls, 1, file.path, ifs, sts)
         IN  [err |-> FALSE, Interfaces |-> r.Interfaces,
              Structs |-> r.Structs, log |-> lg]

\* A plausible slip: the test that the two names differ is left out.
establishRelationshipsNoSelfTest(ifs) ==
    [n \in DOMAIN ifs |->
        [ifs[n] EXCEPT !.RelatedInterfaces = @ \cup
            {ifs[o].Name : o \in
                {x \in DOMAIN ifs :
                    extractBaseName(ifs[n].Name) = extractBaseName(ifs[x].Name)}}]]

\* Analyzer.establishRelationships. Go leaves the order of a map iteration
\* open, so the list RelatedInterfaces is kept as the set of its entries.
establishRelationships(ifs) ==
    [n \in DOMAIN ifs |->
        [ifs[n] EXCEPT !.RelatedInterfaces = @ \cup
            {ifs[o].Name : o \in
                {x \in DOMAIN ifs :
                    /\ extractBaseName(ifs[n].Name) = extractBaseName(ifs[x].Name)
                    /\ ifs[n].Name # ifs[x].Name}}]]

----------------------------------------------------------------------------
(* Generator *)

Whitespace == {" ", "\t", "\n", "\r"}

\* strings.Fields
RECURSIVE fieldsFrom(_, _, _)
fieldsFrom(s, i, cur) ==
    IF i > Len(s) THEN (IF cur = <<>> THEN <<>> ELSE <<cur>>)
    ELSE IF s[i] \in Whitespace
    THEN (IF cur = <<>> THEN <<>> ELSE <<cur>>) \o fieldsFrom(s, i + 1, <<>>)
    ELSE fieldsFrom(s, i + 1, Append(cur, s[i]))

Fields(s) == fieldsFrom(s, 1, <<>>)

\* strings.Join
RECURSIVE Join(_, _)
Join(parts, sep) ==
    IF parts = <<>> THEN <<>>
    ELSE IF Len(parts) = 1 THEN parts[1]
    ELSE parts[1] \o sep \o Join(Tail(parts), sep)

\* A plausible slip: the whole name is lower-cased.
generateStructNameAllLower(interfaceName) == ToLower(interfaceName)

\* Generator.generateStructName
generateStructName(interfaceName) ==
    ToLower(<<interfaceName[1]>>) \o Tail(interfaceName)

\* the suffixes findRelatedInterface tries for a layer, in the code's order
layerSuffixes(layer) ==
    CASE layer = RepositoryLayer -> <<s_Repo, s_Repository>>
      [] layer = UseCaseLayer -> <<s_UseCase, s_Service>>
      [] layer = HandlerLayer -> <<s_Handler, s_Controller>>
      [] OTHER -> <<>>

\* the loop of findRelatedInterface over a suffix list
RECURSIVE firstExisting(_, _, _, _)
firstExisting(baseName, list, i, ifs) ==
    IF i > Len(list) THEN <<>>
    ELSE IF (baseName \o list[i]) \in DOMAIN ifs THEN baseName \o list[i]
    ELSE firstExisting(baseName, list, i + 1, ifs)

\* the same loop run from the last suffix to the first
RECURSIVE lastExisting(_, _, _, _)
lastExisting(baseName, list, i, ifs) ==
    IF i < 1 THEN <<>>
    ELSE IF (baseName \o list[i]) \in DOMAIN ifs THEN baseName \o list[i]
    ELSE lastExisting(baseName, list, i - 1, ifs)

\* A plausible slip: the suffixes of a layer are tried in the other order.
findRelatedInterfaceReversed(baseName, layer, ifs) ==
    lastExisting(baseName, layerSuffixes(layer), Len(layerSuffixes(layer)), ifs)

\* Generator.findRelatedInterface ("" when there is none)
findRelatedInterface(baseName, layer, ifs) ==
    firstExisting(baseName, layerSuffixes(layer), 1, ifs)

\* A plausible slip: the dependency of a use-case or delivery-layer struct
\* is declared whether or not the related interface exists.
generateDependenciesUnchecked(interfaceName, interfaceInfo, ifs) ==
    LET baseName == generatorExtractBaseName(interfaceName) IN
    CASE interfaceInfo.Layer = RepositoryLayer -> <<s_dbSqlDB>>
      [] interfaceInfo.Layer = UseCaseLayer ->
            <<s_repoSp \o findRelatedInterface(baseName, RepositoryLayer, ifs)
                \o s_Repository>>
      [] interfaceInfo.Layer = HandlerLayer ->
            <<s_useCaseSp \o findRelatedInterface(baseName, UseCaseLayer, ifs)
                \o s_UseCase>>
      [] OTHER -> <<>>

\* Generator.generateDependencies
generateDependencies(interfaceName, interfaceInfo, ifs) ==
    LET baseName == generatorExtractBaseName(interfaceName) IN
    CASE interfaceInfo.Layer = RepositoryLayer -> <<s_dbSqlDB>>
      [] interfaceInfo.Layer = UseCaseLayer ->
            LET repoInterface ==
                    findRelatedInterface(baseName, RepositoryLayer, ifs)
            IN  IF repoInterface # <<>> THEN <<s_repoSp \o repoInterface>>
                ELSE <<>>
      [] interfaceInfo.Layer = HandlerLayer ->
            LET useCaseInterface ==
                    findRelatedInterface(baseName, UseCaseLayer, ifs)
            IN  IF useCaseInterface # <<>>
                THEN <<s_useCaseSp \o useCaseInterface>>
                ELSE <<>>
      [] OTHER -> <<>>

\* the parameters writeConstructor derives from the dependencies
RECURSIVE constructorParams(_)
constructorParams(deps) ==
    IF deps = <<>> THEN <<>>
    ELSE LET parts == Fields(Head(deps)) IN
         (IF Len(parts) >= 2
          THEN <<parts[1] \o s_sp \o Join(Tail(parts), s_sp)>>
          ELSE <<>>) \o constructorParams(Tail(deps))

\* the field assignments "name: name," writeConstructor derives
RECURSIVE constructorAssignments(_)
constructorAssignments(deps) ==
    IF deps = <<>> THEN <<>>
    ELSE LET parts == Fields(Head(deps)) IN
         (IF Len(parts) >= 2
          THEN <<[field |-> parts[1], value |-> parts[1]]>>
          ELSE <<>>) \o constructorAssignments(Tail(deps))

\* Generator.generateImplementation: the struct (writeStructDefinition) and
\* the constructor (writeConstructor) of the generated file
generateImplementation(interfaceName, interfaceInfo, ifs) ==
    LET structName == generateStructName(interfaceName)
        dependencies == generateDependencies(interfaceName, interfaceInfo, ifs)
    IN  [structName |-> structName,
         structFields |-> dependencies,
         constructor |-> s_New \o interfaceName,
         params |-> constructorParams(dependencies),
         returns |-> interfaceName,
         builds |-> structName,
         assignments |-> constructorAssignments(dependencies),
         asserts |-> <<interfaceName, structName>>]

\* Generator.writeFactoryMethod: the method New<interface>() of the Factory;
\* dep is the factory call bound to a local variable, args the arguments of
\* the constructor call, todo whether the placeholder comment is written
writeFactoryMethod(interfaceName, interfaceInfo, ifs) ==
    LET baseName == generatorExtractBaseName(interfaceName)
        method(dep, args, todo) ==
            [name |-> s_New \o interfaceName,
             returns |-> interfaceName,
             dep |-> dep,
             calls |-> s_New \o interfaceName,
             args |-> args,
             todo |-> todo]
    IN
    CASE interfaceInfo.Layer = RepositoryLayer -> method(<<>>, <<s_f_db>>, FALSE)
      [] interfaceInfo.Layer = UseCaseLayer ->
            LET repoInterface ==
                    findRelatedInterface(baseName, RepositoryLayer, ifs)
            IN  IF repoInterface # <<>>
                THEN method(<<[var |-> s_repo,
                               call |-> s_f_New \o repoInterface \o s_callParens]>>,
                            <<s_repo>>, FALSE)
                ELSE method(<<>>, <<>>, TRUE)
      [] interfaceInfo.Layer = HandlerLayer ->
            LET useCaseInterface ==
                    findRelatedInterface(baseName, UseCaseLayer, ifs)
            IN  IF useCaseInterface # <<>>
                THEN method(<<[var |-> s_useCaseVar,
                               call |-> s_f_New \o useCaseInterface \o s_callParens]>>,
                            <<s_useCaseVar>>, FALSE)
                ELSE method(<<>>, <<>>, TRUE)
      [] OTHER -> method(<<>>, <<>>, FALSE)

----------------------------------------------------------------------------
(* Generator: the generated files; main: the output stage *)

s_genGo == <<".","g","e","n",".","g","o">>
s_factoryGenGo == <<"f","a","c","t","o","r","y",".","g","e","n",".","g","o">>
s_wireGenGo == <<"w","i","r","e",".","g","e","n",".","g","o">>

\* LayerType.String, as %s prints it
layerText(layer) ==
    CASE layer = RepositoryLayer -> s_repository
      [] layer = UseCaseLayer -> s_usecase
      [] layer = HandlerLayer -> s_handler
      [] OTHER -> s_service

\* Generator.generateFileName
generateFileName(interfaceName, layer) ==
    ToLower(generatorExtractBaseName(interfaceName))
        \o s_underscore \o layerText(layer) \o s_genGo

\* a GeneratedFile; the content is modelled by what it was generated for
GeneratedFile(filename, content) == [Filename |-> filename, Content |-> content]

\* where the walk first meets a declaration of the name
FirstDeclared(name) ==
    Min({i \in 1..NumFiles :
            \E k \in DOMAIN SourceFile(i).decls : SourceFile(i).decls[k].name = name})

\* the names of a set, each before those first declared later in the walk
\* (names first declared by the same file: the one declared first comes first)
RECURSIVE inWalkOrder(_)
inWalkOrder(names) ==
    IF names = {} THEN <<>>
    ELSE LET first == CHOOSE n \in names : \A m \in names :
                 \/ FirstDeclared(n) < FirstDeclared(m)
                 \/ /\ FirstDeclared(n) = FirstDeclared(m)
                    /\ \A k \in DOMAIN SourceFile(FirstDeclared(n)).decls :
                          SourceFile(FirstDeclared(n)).decls[k].name = m =>
                              \E j \in 1..k :
                                  SourceFile(FirstDeclared(n)).decls[j].name = n
         IN  <<first>> \o inWalkOrder(names \ {first})

Reverse(seq) == [k \in 1..Len(seq) |-> seq[Len(seq) + 1 - k]]

\* The orders in which "for name := range projectInfo.Interfaces" may visit
\* the interfaces. Go leaves the order open; the model takes two orders, one
\* the reverse of the other, so that every two interfaces are met in both
\* relative orders.
IterationOrders(ifs) ==
    {inWalkOrder(DOMAIN ifs), Reverse(inWalkOrder(DOMAIN ifs))}

\* Generator.Generate: the implementation files in the order of the
\* iteration, then the factory, then the wire integration
generate(ifs, order) ==
    [k \in 1..Len(order) |->
        GeneratedFile(generateFileName(order[k], ifs[order[k]].Layer),
                      <<"implementation", order[k]>>)]
    \o <<GeneratedFile(s_factoryGenGo, <<"factory">>),
         GeneratedFile(s_wireGenGo, <<"wire">>)>>

\* one round of the loop of writeFiles
writeOne(result, acc, denied, force) ==
    LET existed == result.Filename \in DOMAIN acc.files
        entry(outcome) == [Filename |-> result.Filename,
                           existed |-> existed, outcome |-> outcome]
    IN
    IF existed /\ ~force
    THEN [acc EXCEPT
            !.log = Append(@, <<"WARNING", "File exists, skipping", result.Filename>>),
            !.skipped = @ + 1,
            !.trace = Append(@, entry("skipped"))]
    ELSE IF result.Filename \in denied
    THEN [acc EXCEPT
            !.dir = TRUE,
            !.log = Append(@, <<"ERROR", "Failed to write", result.Filename>>),
            !.trace = Append(@, entry("failed"))]
    ELSE [acc EXCEPT
            !.dir = TRUE,
            !.files = Put(@, result.Filename, result.Content),
            !.written = @ + 1,
            !.trace = Append(@, entry("written"))]

\* the loop of writeFiles from the i-th generated file on
RECURSIVE writeFrom(_, _, _, _, _)
writeFrom(list, i, acc, denied, force) ==
    IF i > Len(list) THEN acc
    ELSE writeFrom(list, i + 1, writeOne(list[i], acc, denied, force),
                   denied, force)

\* A plausible slip: the test of -force is left out, every file is written.
writeFilesAlways(list, found, force) ==
    writeFrom(list, 1,
              [files |-> found.files, dir |-> found.dir, log |-> <<>>,
               trace |-> <<>>, written |-> 0, skipped |-> 0],
              found.denied, TRUE)

\* writeFiles: the output directory after it, the lines it logged, the
\* counts it returns, and what it did with each generated file
writeFiles(list, found, force) ==
    writeFrom(list, 1,
              [files |-> found.files, dir |-> found.dir, log |-> <<>>,
               trace |-> <<>>, written |-> 0, skipped |-> 0],
              found.denied, force)

\* the output directory as the output stage may find it: missing, empty, or
\* holding a factory.gen.go; and the files os.WriteFile cannot write
OutputDirs ==
    {[files |-> f, dir |-> (d \/ f # <<>>), denied |-> x] :
        f \in {<<>>, [p \in {s_factoryGenGo} |-> <<"prior">>]},
        d \in BOOLEAN,
        x \in SUBSET {s_wireGenGo}}

----------------------------------------------------------------------------
(* Specification Spec: the analysis-driven pipeline *)

Present(i) == files[i] # "absent"

\* the files the walk has still to visit
Remaining == {i \in walkIdx..NumFiles : Present(i)}

Init ==
    /\ files \in [1..NumFiles -> FileStates]
    /\ walkIdx = 1
    /\ Interfaces = <<>>
    /\ Structs = <<>>
    /\ log = <<>>
    /\ pc = "walk"
    /\ impls = <<>>
    /\ factory = <<>>
    /\ IdleN
    /\ IdleT
    /\ IdleA
    /\ IdleW
    /\ IdleM
    /\ IdleP

\* AnalyzeProject: the walk callback on the next file; an error of
\* analyzeFile ends the walk and AnalyzeProject returns it
AnalyzeFile ==
    /\ pc = "walk"
    /\ Remaining # {}
    /\ LET f == Min(Remaining)
           r == analyzeFile(f, files[f], Interfaces, Structs, log)
       IN  /\ walkIdx' = f + 1
           /\ Interfaces' = r.Interfaces
           /\ Structs' = r.Structs
           /\ log' = r.log
           /\ pc' = IF r.err THEN "failed" ELSE "walk"
    /\ UNCHANGED <<files, impls, factory, varsN, varsT, varsA, varsW, varsM, varsP>>

\* AnalyzeProject after the walk: establishRelationships, then return
FinishAnalysis ==
    /\ pc = "walk"
    /\ Remaining = {}
    /\ Interfaces' = establishRelationships(Interfaces)
    /\ pc' = "analyzed"
    /\ UNCHANGED <<files, walkIdx, Structs, log, impls, factory, varsN, varsT, varsA, varsW, varsM, varsP>>

\* main: no interface was found, the run ends with a warning
NoInterfaces ==
    /\ pc = "analyzed"
    /\ DOMAIN Interfaces = {}
    /\ log' = Append(log, <<"WARNING", "No interfaces found in project", "">>)
    /\ pc' = "done"
    /\ UNCHANGED <<files, walkIdx, Interfaces, Structs, impls, factory,
                   varsN, varsT, varsA, varsW, varsM, varsP>>

\* Generator.Generate: one implementation per interface, the factory and
\* the wire integration
Generate ==
    /\ pc = "analyzed"
    /\ DOMAIN Interfaces # {}
    /\ impls' = [n \in DOMAIN Interfaces |->
                    generateImplementation(n, Interfaces[n], Interfaces)]
    /\ factory' = [n \in DOMAIN Interfaces |->
                    writeFactoryMethod(n, Interfaces[n], Interfaces)]
    /\ \E order \in IterationOrders(Interfaces) :
           results' = generate(Interfaces, order)
    /\ pc' = "generated"
    /\ UNCHANGED <<files, walkIdx, Interfaces, Structs, log, flags, env0, out,
                   report, varsN, varsT, varsA, varsM, varsP>>

\* A plausible slip: the dry run writes the files all the same.
DryRunWrites ==
    /\ pc = "generated"
    /\ \E force \in BOOLEAN, found \in OutputDirs :
        LET r == writeFiles(results, found, force) IN
        /\ flags' = [dryRun |-> TRUE, force |-> force]
        /\ env0' = found
        /\ out' = [files |-> r.files, dir |-> r.dir]
        /\ report' = [report EXCEPT
                        !.listing = [k \in DOMAIN results |-> results[k].Filename]]
    /\ pc' = "listed"
    /\ UNCHANGED <<files, walkIdx, Interfaces, Structs, log, impls, factory,
                   results, varsN, varsT, varsA, varsM, varsP>>

\* main with -dry-run: the file names (and line counts) are handed to
\* logger.Info, nothing is written
DryRun ==
    /\ pc = "generated"
    /\ \E force \in BOOLEAN, found \in OutputDirs :
        /\ flags' = [dryRun |-> TRUE, force |-> force]
        /\ env0' = found
        /\ out' = [files |-> found.files, dir |-> found.dir]
        /\ report' = [report EXCEPT
                        !.listing = [k \in DOMAIN results |-> results[k].Filename]]
    /\ pc' = "listed"
    /\ UNCHANGED <<files, walkIdx, Interfaces, Structs, log, impls, factory,
                   results, varsN, varsT, varsA, varsM, varsP>>

\* main without -dry-run: writeFiles, then the summary
WriteFiles ==
    /\ pc = "generated"
    /\ \E force \in BOOLEAN, found \in OutputDirs :
        LET r == writeFiles(results, found, force) IN
        /\ flags' = [dryRun |-> FALSE, force |-> force]
        /\ env0' = found
        /\ out' = [files |-> r.files, dir |-> r.dir]
        /\ log' = log \o r.log
        /\ report' = [report EXCEPT !.trace = r.trace,
                                    !.written = r.written,
                                    !.skipped = r.skipped]
    /\ pc' = "written"
    /\ UNCHANGED <<files, walkIdx, Interfaces, Structs, impls, factory,
                   results, varsN, varsT, varsA, varsM, varsP>>

Next ==
    \/ AnalyzeFile
    \/ FinishAnalysis
    \/ NoInterfaces
    \/ Generate
    \/ DryRun
    \/ WriteFiles

Spec == Init /\ [][Next]_vars

----------------------------------------------------------------------------
(* Properties of the analysis-driven pipeline *)

\* AnalyzeProject has returned its result without an error
Analyzed == pc \in {"analyzed", "generated", "done"}

\* C3: after establishRelationships the related-interface relation is
\* symmetric and irreflexive: B is listed in A.RelatedInterfaces iff A is
\* listed in B.RelatedInterfaces iff A and B are distinct records with equal
\* base names, and no interface lists itself.
C3_RelatedSymmetricIrreflexive ==
    Analyzed =>
        \A a \in DOMAIN Interfaces :
            /\ Interfaces[a].RelatedInterfaces \subseteq DOMAIN Interfaces
            /\ a \notin Interfaces[a].RelatedInterfaces
            /\ \A b \in DOMAIN Interfaces :
                /\ (b \in Interfaces[a].RelatedInterfaces)
                       <=> (a \in Interfaces[b].RelatedInterfaces)
                /\ (b \in Interfaces[a].RelatedInterfaces)
                       <=> (/\ a # b
                            /\ extractBaseName(a) = extractBaseName(b))

C3_Witness ==
    /\ pc = "analyzed"
    /\ n_ProductRepo \in DOMAIN Interfaces
    /\ n_ProductUseCase \in DOMAIN Interfaces
    /\ n_ProductRepo \in Interfaces[n_ProductUseCase].RelatedInterfaces
    /\ n_ProductUseCase \in Interfaces[n_ProductRepo].RelatedInterfaces
    /\ n_UserRepository \in DOMAIN Interfaces
    /\ Interfaces[n_UserRepository].RelatedInterfaces = {}

\* C6: for every interface N of the persistence layer the generated
\* implementation declares a struct named N with its first character
\* lower-cased and a constructor New<N> that takes exactly one parameter
\* "db *sql.DB", returns N, and assigns the parameter to the struct field of
\* the same name.
C6_PersistenceConstructor ==
    pc = "generated" =>
        \A n \in DOMAIN Interfaces :
            Interfaces[n].Layer = RepositoryLayer =>
                /\ n \in DOMAIN impls
                /\ impls[n].structName = <<toLowerChar(n[1])>> \o Tail(n)
                /\ impls[n].builds = impls[n].structName
                /\ impls[n].constructor = s_New \o n
                /\ impls[n].params = <<s_dbSqlDB>>
                /\ impls[n].returns = n
                /\ impls[n].assignments = <<[field |-> s_db, value |-> s_db]>>
                /\ impls[n].structFields = <<s_db \o s_sp \o s_sqlDBType>>

C6_Witness ==
    /\ pc = "generated"
    /\ n_UserRepository \in DOMAIN impls
    /\ Interfaces[n_UserRepository].Layer = RepositoryLayer
    /\ impls[n_UserRepository].structName
           = <<"u">> \o Tail(s_User) \o s_Repository
    /\ impls[n_UserRepository].constructor = s_New \o n_UserRepository
    /\ impls[n_UserRepository].params = <<s_dbSqlDB>>

\* the factory method of an interface binds "repo" to the factory call for
\* the interface named dependency and passes it as the single argument
CallsFactoryOf(m, dependency) ==
    /\ m.dep = <<[var |-> s_repo,
                  call |-> s_f_New \o dependency \o s_callParens]>>
    /\ m.args = <<s_repo>>
    /\ ~m.todo

\* C7: for every use-case-layer interface U with base name B the factory
\* method New<U>() calls f.New<B>Repo() when an interface <B>Repo exists,
\* otherwise f.New<B>Repository() when <B>Repository exists, and passes the
\* result as the single argument of New<U>(...); only when neither exists
\* does it emit the placeholder call with no arguments.
C7_FactoryUseCaseDependency ==
    pc = "generated" =>
        \A u \in DOMAIN Interfaces :
            Interfaces[u].Layer = UseCaseLayer =>
                LET b == generatorExtractBaseName(u)
                    m == factory[u]
                IN  /\ m.name = s_New \o u
                    /\ m.calls = s_New \o u
                    /\ IF (b \o s_Repo) \in DOMAIN Interfaces
                       THEN CallsFactoryOf(m, b \o s_Repo)
                       ELSE IF (b \o s_Repository) \in DOMAIN Interfaces
                       THEN CallsFactoryOf(m, b \o s_Repository)
                       ELSE m.dep = <<>> /\ m.args = <<>> /\ m.todo

C7_Witness ==
    /\ pc = "generated"
    /\ n_ProductUseCase \in DOMAIN factory
    /\ n_ProductRepo \in DOMAIN Interfaces
    /\ n_ProductRepository \in DOMAIN Interfaces
    /\ n_ProductHandler \in DOMAIN Interfaces
    /\ CallsFactoryOf(factory[n_ProductUseCase], n_ProductRepo)

\* the interface the generated struct of an interface depends on: the type
\* of its field, when it has one other than the database handle
DependencyOf(n) ==
    IF impls[n].structFields = <<>> \/ Interfaces[n].Layer = RepositoryLayer
    THEN <<>>
    ELSE Fields(impls[n].structFields[1])[2]

\* C24: the dependency resolved for a delivery-layer interface is an
\* interface classified into the use-case layer, and the dependency resolved
\* for a use-case-layer interface is one classified into the persistence
\* layer.
C24_DependencyLayers ==
    pc = "generated" =>
        \A n \in DOMAIN Interfaces :
            DependencyOf(n) # <<>> =>
                /\ DependencyOf(n) \in DOMAIN Interfaces
                /\ Interfaces[n].Layer = HandlerLayer =>
                       Interfaces[DependencyOf(n)].Layer = UseCaseLayer
                /\ Interfaces[n].Layer = UseCaseLayer =>
                       Interfaces[DependencyOf(n)].Layer = RepositoryLayer

\* the height of a layer in the dependency order: delivery above use case
\* and service, these above persistence
LayerRank(layer) ==
    CASE layer = HandlerLayer -> 2
      [] layer = UseCaseLayer -> 1
      [] layer = ServiceLayer -> 1
      [] OTHER -> 0

\* the interfaces whose factory method the factory method of n calls
FactoryCallees(n) ==
    {m \in DOMAIN Interfaces :
        \E k \in DOMAIN factory[n].dep :
            factory[n].dep[k].call = s_f_New \o m \o s_callParens}

\* C25: the wiring of the generated factory is well-founded: each factory
\* method calls only the factory method of an interface of a strictly lower
\* layer, so no factory method calls itself and every chain of factory calls
\* ends at a constructor without factory calls.
C25_FactoryWellFounded ==
    pc = "generated" =>
        \A n \in DOMAIN Interfaces :
            /\ Cardinality(FactoryCallees(n)) = Len(factory[n].dep)
            /\ \A m \in FactoryCallees(n) :
                /\ m # n
                /\ LayerRank(Interfaces[m].Layer) < LayerRank(Interfaces[n].Layer)

\* C28: constructor and factory agree on arity: for every interface the
\* factory method passes to New<I>(...) as many arguments as the generated
\* constructor New<I> has parameters, and the struct has exactly one field
\* per constructor parameter, assigned from the parameter of the same name.
C28_ConstructorFactoryArity ==
    pc = "generated" =>
        \A n \in DOMAIN Interfaces :
            /\ n \in DOMAIN impls /\ n \in DOMAIN factory
            /\ factory[n].calls = impls[n].constructor
            /\ Len(factory[n].args) = Len(impls[n].params)
            /\ Len(impls[n].structFields) = Len(impls[n].params)
            /\ Len(impls[n].assignments) = Len(impls[n].params)
            /\ \A k \in DOMAIN impls[n].params :
                /\ Fields(impls[n].structFields[k]) = Fields(impls[n].params[k])
                /\ impls[n].assignments[k].field = Fields(impls[n].params[k])[1]
                /\ impls[n].assignments[k].value = Fields(impls[n].params[k])[1]

\* a delivery-layer interface with its use case, a use-case-layer interface
\* without a repository, and a persistence-layer interface are generated
C28_Witness ==
    /\ pc = "generated"
    /\ {n_ProductHandler, n_UserHandler, n_ProductUseCase, n_UserRepository}
           \subseteq DOMAIN Interfaces
    /\ Len(impls[n_ProductHandler].params) = 1
    /\ Len(factory[n_ProductHandler].args) = 1
    /\ impls[n_ProductUseCase].params = <<>>
    /\ factory[n_ProductUseCase].args = <<>>
    /\ factory[n_ProductUseCase].todo
    /\ Len(impls[n_UserRepository].params) = 1
    /\ factory[n_UserRepository].args = <<s_f_db>>
    /\ impls[n_UserHandler].params = <<>>

\* C30: for every extracted interface the name of the implementing struct
\* differs from the interface's own name, so the generated struct never
\* redeclares the identifier of the interface.
C30_StructNameDiffers ==
    pc = "generated" =>
        \A n \in DOMAIN Interfaces :
            /\ impls[n].structName # n
            /\ impls[n].asserts = <<n, impls[n].structName>>

\* the files of the project that parsed, and those that did not
ParsedFiles == {i \in 1..NumFiles : files[i] = "ok"}
UnparsableFiles == {i \in 1..NumFiles : files[i] = "unparsable"}

\* the files of a set that declare a type of the given shape and name
Declaring(among, shape, name) ==
    {i \in among : \E k \in DOMAIN SourceFile(i).decls :
        /\ SourceFile(i).decls[k].shape = shape
        /\ SourceFile(i).decls[k].name = name}

\* the names of a shape declared by the files of a set
DeclaredNames(among, shape) ==
    UNION {{SourceFile(i).decls[k].name :
                k \in {j \in DOMAIN SourceFile(i).decls :
                           SourceFile(i).decls[j].shape = shape}} : i \in among}

\* the records of a map are exactly those of the parsed files
RecordsOfParsedFiles(m, shape) ==
    /\ DOMAIN m = DeclaredNames(ParsedFiles, shape)
    /\ \A n \in DOMAIN m :
        /\ m[n].Name = n
        /\ \E i \in Declaring(ParsedFiles, shape, n) :
               m[n].FilePath = SourceFile(i).path

\* the warnings about a file that failed to parse
ParseWarnings ==
    {k \in DOMAIN log : log[k][1] = "WARNING" /\ log[k][2] = "Failed to parse"}

\* C8: a parse failure of one source file is non-fatal to AnalyzeProject:
\* the run never fails at a file that does not parse, so with files that
\* fail to parse (and none that cannot be read) it returns without error;
\* the result holds exactly the interface and struct records of the files
\* that parsed, and one warning is logged per unparsable file.
C8_ParseFailureNonFatal ==
    /\ pc = "failed" => files[walkIdx - 1] = "unreadable"
    /\ Analyzed =>
        /\ \A i \in 1..NumFiles : files[i] # "unreadable"
        /\ RecordsOfParsedFiles(Interfaces, "interface")
        /\ RecordsOfParsedFiles(Structs, "struct")
        /\ Cardinality(ParseWarnings) = Cardinality(UnparsableFiles)
        /\ \A i \in UnparsableFiles :
               \E k \in ParseWarnings : log[k][3] = SourceFile(i).path

C8_Witness ==
    /\ pc = "analyzed"
    /\ files[1] = "unparsable"
    /\ files[3] = "ok"
    /\ files[5] = "ok"
    /\ \A i \in (1..NumFiles) \ {1, 3, 5} : files[i] = "absent"
    /\ DOMAIN Interfaces = {n_ProductRepo, n_ProductUseCase}
    /\ Cardinality(ParseWarnings) = 1

\* C20: a failing read of one source file aborts only that file's
\* contribution: AnalyzeProject never fails at it and returns the records
\* extracted from all the other files.
C20_ReadFailureSkipsFile ==
    /\ pc # "failed"
    /\ Analyzed =>
        /\ RecordsOfParsedFiles(Interfaces, "interface")
        /\ RecordsOfParsedFiles(Structs, "struct")

\* the names of a shape that the files of a set declare at top level
TopLevelNames(among, shape) ==
    UNION {{SourceFile(i).decls[k].name :
                k \in {j \in DOMAIN SourceFile(i).decls :
                           /\ SourceFile(i).decls[j].shape = shape
                           /\ ~SourceFile(i).decls[j].nested}} : i \in among}

\* C22: interface and struct records come from the top-level type
\* declarations only: every top-level interface or struct declaration of an
\* analysed file yields a record, and a type declared inside a function body
\* yields none.
C22_TopLevelDeclarationsOnly ==
    Analyzed =>
        /\ DOMAIN Interfaces = TopLevelNames(ParsedFiles, "interface")
        /\ DOMAIN Structs = TopLevelNames(ParsedFiles, "struct")

----------------------------------------------------------------------------
(* The config-driven pipeline: paths *)

\* A path is the sequence of its components, the parts between the
\* separators, and is relative to the output directory; the empty path is
\* the output directory itself.
s_postgres == <<"p","o","s","t","g","r","e","s">>
s_mongodb == <<"m","o","n","g","o","d","b">>
s_dotGo == <<".","g","o">>
s_dotSql == <<".","s","q","l">>
s_implGo == <<"_","i","m","p","l",".","g","o">>
s_dotBackup == <<".","b","a","c","k","u","p">>
c_internal == <<"i","n","t","e","r","n","a","l">>
c_infrastructure == <<"i","n","f","r","a","s","t","r","u","c","t","u","r","e">>
c_database == <<"d","a","t","a","b","a","s","e">>
c_sqlc == <<"s","q","l","c">>
c_db == <<"d","b">>
c_migrations == <<"m","i","g","r","a","t","i","o","n","s">>
c_queries == <<"q","u","e","r","i","e","s">>
c_cmd == <<"c","m","d">>
c_server == <<"s","e","r","v","e","r">>
c_domain == <<"d","o","m","a","i","n">>
c_entity == <<"e","n","t","i","t","y">>
c_http == <<"h","t","t","p">>
c_config == <<"c","o","n","f","i","g">>
c_pkg == <<"p","k","g">>
c_logger == <<"l","o","g","g","e","r">>
c_validator == <<"v","a","l","i","d","a","t","o","r">>
c_docs == <<"d","o","c","s">>
c_events == <<"e","v","e","n","t","s">>
c_goMod == <<"g","o",".","m","o","d">>
c_mainGo == <<"m","a","i","n",".","g","o">>
c_readme == <<"R","E","A","D","M","E",".","m","d">>
c_makefile == <<"M","a","k","e","f","i","l","e">>
c_sqlcYaml == <<"s","q","l","c",".","y","a","m","l">>
c_connectionGo == <<"c","o","n","n","e","c","t","i","o","n",".","g","o">>
c_withSchemaGo == <<"w","i","t","h","_","s","c","h","e","m","a",".","g","o">>
c_eventbusGo == <<"e","v","e","n","t","b","u","s",".","g","o">>
c_configGo == <<"c","o","n","f","i","g",".","g","o">>
c_loggerGo == <<"l","o","g","g","e","r",".","g","o">>

d_cmdServer == <<c_cmd, c_server>>
d_entity == <<c_internal, c_domain, c_entity>>
d_repository == <<c_internal, c_domain, s_repository>>
d_usecase == <<c_internal, s_usecase>>
d_handlerHttp == <<c_internal, s_handler, c_http>>
d_config == <<c_internal, c_infrastructure, c_config>>
d_pkgLogger == <<c_pkg, c_logger>>
d_pkgValidator == <<c_pkg, c_validator>>
d_docs == <<c_docs>>
d_database == <<c_internal, c_infrastructure, c_database>>
d_dbPostgres == Append(d_database, s_postgres)
d_dbPostgresSqlc == Append(d_dbPostgres, c_sqlc)
d_dbMongodb == Append(d_database, s_mongodb)
d_dbMigrations == <<c_db, c_migrations>>
d_dbQueries == <<c_db, c_queries>>
d_migrations == <<c_migrations>>
d_events == <<c_internal, c_infrastructure, c_events>>
f_goMod == <<c_goMod>>
f_mainGo == Append(d_cmdServer, c_mainGo)
f_readme == <<c_readme>>
f_makefile == <<c_makefile>>
f_sqlcYaml == <<c_sqlcYaml>>
f_postgresConnection == Append(d_dbPostgres, c_connectionGo)
f_postgresWithSchema == Append(d_dbPostgres, c_withSchemaGo)
f_mongodbConnection == Append(d_dbMongodb, c_connectionGo)
f_legacyConnection == Append(d_database, c_connectionGo)
f_eventbus == Append(d_events, c_eventbusGo)
f_config == Append(d_config, c_configGo)
f_logger == Append(d_pkgLogger, c_loggerGo)

\* templates.ToSnakeCase
RECURSIVE snakeFrom(_, _)
snakeFrom(s, i) ==
    IF i > Len(s) THEN <<>>
    ELSE (IF i > 1 /\ toLowerChar(s[i]) # s[i] THEN s_underscore ELSE <<>>)
         \o <<toLowerChar(s[i])>>
         \o snakeFrom(s, i + 1)

ToSnakeCase(s) == snakeFrom(s, 1)

\* filepath.Join(g.outputDir, filename), relative to the output directory:
\* filepath.Clean drops the empty components
fullPathOf(filename) == SelectSeq(filename, LAMBDA c : c # <<>>)

\* filepath.Dir
Dir(p) == IF p = <<>> THEN <<>> ELSE SubSeq(p, 1, Len(p) - 1)

\* the directories above a path, the output directory included
Ancestors(p) == {SubSeq(p, 1, k) : k \in 0..(Len(p) - 1)}

\* os.MkdirAll
MkdirAll(d, directories) == directories \cup Ancestors(d) \cup {d}

\* os.Stat(path) succeeds
Exists(p, tree, directories) == p \in DOMAIN tree \/ p \in directories

\* os.WriteFile(path) succeeds: the parent directory is there and the path
\* is not itself a directory
CanWrite(p, directories) == Dir(p) \in directories /\ p \notin directories

\* fullPath + ".backup"
backupPathOf(p) == [p EXCEPT ![Len(p)] = @ \o s_dotBackup]

----------------------------------------------------------------------------
(* The config-driven pipeline: the project description *)

\* Database.Type of the project description
DatabaseTypes == {"postgres", "mongodb", "both", ""}

\* Repository.Database of a repository: the two documented values, or
\* nothing when the key is left out
RepoDatabases == {s_postgres, s_mongodb, <<>>}

EntityName(k) ==
    CASE k = 1 -> s_User
      [] k = 2 -> s_Product
      [] OTHER -> s_Order

\* a domain with the given repositories
DomainOf(repoDbs) ==
    [Name |-> s_User,
     Entities |-> [k \in 1..MaxRepos |-> EntityName(k)],
     Repositories |-> [k \in DOMAIN repoDbs |->
                          [Name |-> EntityName(k) \o s_Repository,
                           Entity |-> EntityName(k),
                           Database |-> repoDbs[k]]],
     UseCases |-> <<s_User \o s_UseCase>>,
     Handlers |-> <<[Name |-> s_User \o s_Handler]>>]

\* the project descriptions a well-formed file can hold
Configs ==
    {[Database |-> [Type |-> t, Migrations |-> m],
      Events |-> [Enabled |-> e],
      Domains |-> <<DomainOf(r)>>] :
        t \in DatabaseTypes, m \in BOOLEAN, e \in BOOLEAN,
        r \in UNION {[1..n -> RepoDatabases] : n \in 0..MaxRepos}}

\* the project description file: unreadable, not JSON, or a description
ConfigFiles ==
    {[state |-> "unreadable"], [state |-> "malformed"]}
        \cup {[state |-> "ok", config |-> c] : c \in Configs}

----------------------------------------------------------------------------
(* The config-driven pipeline: generator *)

\* createProjectStructure: the directories it creates, in order
createProjectStructure(cfg) ==
    <<d_cmdServer, d_entity, d_repository, d_usecase, d_handlerHttp,
      d_config, d_pkgLogger, d_pkgValidator, d_docs>>
    \o (IF cfg.Database.Type = "postgres" \/ cfg.Database.Type = "both"
        THEN <<d_dbPostgres, d_dbPostgresSqlc, d_dbMigrations, d_dbQueries>>
        ELSE <<>>)
    \o (IF cfg.Database.Type = "mongodb" \/ cfg.Database.Type = "both"
        THEN <<d_dbMongodb>> ELSE <<>>)
    \o (IF cfg.Database.Type # "" THEN <<d_database>> ELSE <<>>)
    \o (IF cfg.Database.Migrations THEN <<d_migrations>> ELSE <<>>)
    \o (IF cfg.Events.Enabled THEN <<d_events>> ELSE <<>>)

\* the loop of createProjectStructure over its directories
RECURSIVE mkdirEach(_, _, _)
mkdirEach(list, i, directories) ==
    IF i > Len(list) THEN directories
    ELSE mkdirEach(list, i + 1, MkdirAll(list[i], directories))

\* one call of Generator.writeFile
Call(filename, template) == [filename |-> filename, template |-> template]

\* the concatenation of a sequence of sequences
RECURSIVE Flatten(_)
Flatten(seqs) ==
    IF seqs = <<>> THEN <<>> ELSE Head(seqs) \o Flatten(Tail(seqs))

\* Generator.generateMainFiles: its writeFile calls
generateMainFiles ==
    <<Call(f_goMod, "GoModTemplate"),
      Call(f_mainGo, "MainTemplate"),
      Call(f_readme, "ReadmeTemplate"),
      Call(f_makefile, "MakefileTemplate")>>

\* Generator.getEntityDatabaseMap, looked up at one entity: the database of
\* the last repository of that entity, "" when the map has no such key
RECURSIVE entityDatabase(_, _, _)
entityDatabase(repos, i, entity) ==
    IF i < 1 THEN <<>>
    ELSE IF repos[i].Entity # <<>> /\ repos[i].Entity = entity
    THEN repos[i].Database
    ELSE entityDatabase(repos, i - 1, entity)

\* Generator.hasPostgresEntities
hasPostgresEntities(domain) ==
    \E k \in DOMAIN domain.Repositories :
        /\ domain.Repositories[k].Entity # <<>>
        /\ entityDatabase(domain.Repositories, Len(domain.Repositories),
                          domain.Repositories[k].Entity) = s_postgres

\* Generator.generateSqlcFiles: its writeFile calls
generateSqlcFiles(domain) ==
    <<Call(f_sqlcYaml, "SqlcConfigTemplate")>>
    \o Flatten([k \in DOMAIN domain.Entities |->
        IF entityDatabase(domain.Repositories, Len(domain.Repositories),
                          domain.Entities[k]) = s_postgres
        THEN <<Call(Append(d_dbQueries,
                           ToSnakeCase(domain.Entities[k]) \o s_dotSql),
                    "SqlcQueryTemplate")>>
        ELSE <<>>])

\* Generator.generateDomainFiles: its writeFile calls
generateDomainFiles(domain) ==
    [k \in DOMAIN domain.Entities |->
        Call(Append(d_entity, ToSnakeCase(domain.Entities[k]) \o s_dotGo),
             IF entityDatabase(domain.Repositories, Len(domain.Repositories),
                               domain.Entities[k]) = s_mongodb
             THEN "MongoEntityTemplate" ELSE "PostgresEntityTemplate")]
    \o (IF hasPostgresEntities(domain) THEN generateSqlcFiles(domain)
        ELSE <<>>)
    \o Flatten([k \in DOMAIN domain.Repositories |->
        LET repo == domain.Repositories[k] IN
        <<Call(Append(d_repository, ToSnakeCase(repo.Name) \o s_dotGo),
               "RepositoryTemplate"),
          Call(d_database
                   \o <<repo.Database, ToSnakeCase(repo.Name) \o s_implGo>>,
               IF repo.Database = s_mongodb THEN "MongoRepositoryTemplate"
               ELSE "PostgresRepositoryTemplate")>>])
    \o [k \in DOMAIN domain.UseCases |->
        Call(Append(d_usecase, ToSnakeCase(domain.UseCases[k]) \o s_dotGo),
             "UseCaseTemplate")]
    \o [k \in DOMAIN domain.Handlers |->
        Call(Append(d_handlerHttp,
                    ToSnakeCase(domain.Handlers[k].Name) \o s_dotGo),
             "HandlerTemplate")]

\* A plausible slip: the legacy connection file is written whatever the
\* database type is.
generateInfrastructureFilesLegacyAlways(cfg) ==
    (IF cfg.Database.Type = "postgres" \/ cfg.Database.Type = "both"
     THEN <<Call(f_postgresConnection, "PostgresTemplate"),
            Call(f_postgresWithSchema, "WithConnSchema")>>
     ELSE <<>>)
    \o (IF cfg.Database.Type = "mongodb" \/ cfg.Database.Type = "both"
        THEN <<Call(f_mongodbConnection, "MongoTemplate")>> ELSE <<>>)
    \o <<Call(f_legacyConnection, "PostgresTemplate")>>
    \o (IF cfg.Events.Enabled
        THEN <<Call(f_eventbus, "EventBusTemplate")>> ELSE <<>>)
    \o <<Call(f_config, "ConfigTemplate"), Call(f_logger, "LoggerTemplate")>>

\* Generator.generateInfrastructureFiles: its writeFile calls
generateInfrastructureFiles(cfg) ==
    (IF cfg.Database.Type = "postgres" \/ cfg.Database.Type = "both"
     THEN <<Call(f_postgresConnection, "PostgresTemplate"),
            Call(f_postgresWithSchema, "WithConnSchema")>>
     ELSE <<>>)
    \o (IF cfg.Database.Type = "mongodb" \/ cfg.Database.Type = "both"
        THEN <<Call(f_mongodbConnection, "MongoTemplate")>> ELSE <<>>)
    \o (IF cfg.Database.Type = ""
        THEN <<Call(f_legacyConnection, "PostgresTemplate")>> ELSE <<>>)
    \o (IF cfg.Events.Enabled
        THEN <<Call(f_eventbus, "EventBusTemplate")>> ELSE <<>>)
    \o <<Call(f_config, "ConfigTemplate"), Call(f_logger, "LoggerTemplate")>>

\* Generator.generateAll: the writeFile calls of a run that meets no error,
\* in order
generateAll(cfg) ==
    generateMainFiles
    \o Flatten([k \in DOMAIN cfg.Domains |-> generateDomainFiles(cfg.Domains[k])])
    \o generateInfrastructureFiles(cfg)

\* Generator.createBackup: the files after it (unchanged when it fails) and
\* whether it wrote the backup
createBackup(srcPath, backupPath, tree, directories) ==
    IF srcPath \in DOMAIN tree /\ CanWrite(backupPath, directories)
    THEN [fs |-> Put(tree, backupPath, tree[srcPath]), written |-> {backupPath}]
    ELSE [fs |-> tree, written |-> {}]

\* A plausible slip: an existing file is skipped whenever skip-existing is
\* set, force or not.
writeFileSkipIgnoresForce(call, tree, directories, opts) ==
    LET fullPath == fullPathOf(call.filename)
        exists == Exists(fullPath, tree, directories)
    IN
    IF exists /\ opts.SkipExisting
    THEN [err |-> FALSE, fs |-> tree, written |-> {}]
    ELSE
    LET b == IF exists /\ opts.CreateBackup
             THEN createBackup(fullPath, backupPathOf(fullPath),
                               tree, directories)
             ELSE [fs |-> tree, written |-> {}]
    IN  IF CanWrite(fullPath, directories)
        THEN [err |-> FALSE,
              fs |-> Put(b.fs, fullPath, call.template),
              written |-> b.written \cup {fullPath}]
        ELSE [err |-> TRUE, fs |-> b.fs, written |-> b.written]

\* Generator.writeFile: whether it returns an error, the files after it, and
\* the paths os.WriteFile has written. The content written is the template
\* executed on the data, which is modelled by the name of the template.
writeFile(call, tree, directories, opts) ==
    LET fullPath == fullPathOf(call.filename)
        exists == Exists(fullPath, tree, directories)
    IN
    IF exists /\ opts.SkipExisting /\ ~opts.Force
    THEN [err |-> FALSE, fs |-> tree, written |-> {}]
    ELSE
    LET b == IF exists /\ opts.CreateBackup
             THEN createBackup(fullPath, backupPathOf(fullPath),
                               tree, directories)
             ELSE [fs |-> tree, written |-> {}]
    IN  IF CanWrite(fullPath, directories)
        THEN [err |-> FALSE,
              fs |-> Put(b.fs, fullPath, call.template),
              written |-> b.written \cup {fullPath}]
        ELSE [err |-> TRUE, fs |-> b.fs, written |-> b.written]

----------------------------------------------------------------------------
(* Specification SpecA: the config-driven pipeline *)

\* the files that may be under the output directory before the run
PriorFiles == {f_goMod, f_postgresConnection, f_legacyConnection}

\* the directories that may stand, before the run, where a backup would be
\* written: os.WriteFile on such a path fails
PriorObstacles == {backupPathOf(f_goMod)}

\* every combination of the flags -skip-existing, -backup and -force
OptionSets == [SkipExisting : BOOLEAN, CreateBackup : BOOLEAN, Force : BOOLEAN]

InitA ==
    /\ cfgFile \in ConfigFiles
    /\ options \in OptionSets
    /\ \E prior \in SUBSET PriorFiles :
       \E blocked \in SUBSET PriorObstacles :
        /\ blocked # {} => f_goMod \in prior
        /\ fs = [p \in prior |-> "prior"]
        /\ dirs = UNION {Ancestors(p) : p \in prior \cup blocked} \cup blocked
    /\ fs0 = fs
    /\ gpc = "start"
    /\ calls = <<>>
    /\ targets = {}
    /\ written = {}
    /\ last = [target |-> <<>>, existed |-> FALSE, wrote |-> FALSE,
               before |-> "", err |-> FALSE]
    /\ IdleN
    /\ IdleT
    /\ IdleB
    /\ IdleW
    /\ IdleM
    /\ IdleP

\* a variant that creates the project structure before it reads the project
\* description
ReadConfigCreatesStructure ==
    /\ gpc = "start"
    /\ gpc' = IF cfgFile.state = "ok" THEN "configured" ELSE "failed"
    /\ dirs' = MkdirAll(d_cmdServer, dirs)
    /\ UNCHANGED <<cfgFile, options, fs, fs0, calls, targets, written,
                   last, varsN, varsT, varsB, varsW, varsM, varsP>>

\* GenerateWithOptions (and Generate, with the default options): the
\* project description is read and parsed; a failure is returned
ReadConfig ==
    /\ gpc = "start"
    /\ gpc' = IF cfgFile.state = "ok" THEN "configured" ELSE "failed"
    /\ UNCHANGED <<cfgFile, options, fs, dirs, fs0, calls, targets, written,
                   last, varsN, varsT, varsB, varsW, varsM, varsP>>

\* GenerateWithOptions: createProjectStructure, then the Generator is built
\* and generateAll starts
CreateProjectStructure ==
    /\ gpc = "configured"
    /\ dirs' = mkdirEach(createProjectStructure(cfgFile.config), 1, dirs)
    /\ calls' = generateAll(cfgFile.config)
    /\ gpc' = "writing"
    /\ UNCHANGED <<cfgFile, options, fs, fs0, targets, written, last,
                   varsN, varsT, varsB, varsW, varsM, varsP>>

\* generateAll: the next writeFile call; its error ends the run
WriteFile ==
    /\ gpc = "writing"
    /\ calls # <<>>
    /\ LET call == Head(calls)
           fullPath == fullPathOf(call.filename)
           r == writeFile(call, fs, dirs, options)
       IN  /\ fs' = r.fs
           /\ written' = written \cup r.written
           /\ targets' = targets \cup {fullPath}
           /\ last' = [target |-> fullPath,
                       existed |-> Exists(fullPath, fs, dirs),
                       wrote |-> fullPath \in r.written,
                       before |-> IF fullPath \in DOMAIN fs
                                  THEN fs[fullPath] ELSE "",
                       err |-> r.err]
           /\ gpc' = IF r.err THEN "failed" ELSE "writing"
           /\ calls' = IF r.err THEN calls ELSE Tail(calls)
    /\ UNCHANGED <<cfgFile, options, dirs, fs0, varsN, varsT, varsB, varsW, varsM, varsP>>

\* generateAll returns nil
FinishGenerate ==
    /\ gpc = "writing"
    /\ calls = <<>>
    /\ gpc' = "done"
    /\ UNCHANGED <<cfgFile, options, fs, dirs, fs0, calls, targets, written,
                   last, varsN, varsT, varsB, varsW, varsM, varsP>>

NextA == ReadConfig \/ CreateProjectStructure \/ WriteFile \/ FinishGenerate

SpecA == InitA /\ [][NextA]_vars

----------------------------------------------------------------------------
(* Properties of the config-driven pipeline *)

\* the project description was read and its database type is "both"
TypeBoth == cfgFile.state = "ok" /\ cfgFile.config.Database.Type = "both"

\* writeFile was called for a path and the file is there: written in this
\* run, or kept because it existed and existing files are skipped
Emitted(p) ==
    /\ p \in targets
    /\ p \in DOMAIN fs
    /\ \/ p \in written /\ fs[p] # "prior"
       \/ /\ p \in DOMAIN fs0
          /\ options.SkipExisting /\ ~options.Force
          /\ fs[p] = fs0[p]

\* C9: for a project description whose database type is "both" the run
\* creates the directories of both backing stores, writes both connection
\* files, and never writes the legacy single-database connection file
\* internal/infrastructure/database/connection.go.
C9_BothDatabases ==
    TypeBoth =>
        /\ gpc # "failed"
        /\ f_legacyConnection \notin targets
        /\ f_legacyConnection \notin written
        /\ IF f_legacyConnection \in DOMAIN fs0
           THEN /\ f_legacyConnection \in DOMAIN fs
                /\ fs[f_legacyConnection] = fs0[f_legacyConnection]
           ELSE f_legacyConnection \notin DOMAIN fs
        /\ gpc \in {"writing", "done"} =>
            /\ d_dbPostgres \in dirs
            /\ d_dbMongodb \in dirs
        /\ gpc = "done" =>
            /\ Emitted(f_postgresConnection)
            /\ Emitted(f_mongodbConnection)

C9_Witness ==
    /\ TypeBoth
    /\ gpc = "done"
    /\ f_postgresConnection \in written
    /\ f_mongodbConnection \in written
    /\ f_legacyConnection \in DOMAIN fs0
    /\ Len(cfgFile.config.Domains[1].Repositories) = MaxRepos

\* the default options of the generate command
DefaultOptions ==
    options = [SkipExisting |-> TRUE, CreateBackup |-> FALSE, Force |-> FALSE]

\* C10: for every writeFile call whose target already exists, the target is
\* left unchanged iff skip-existing is set and force is not set; with force
\* set the target is overwritten whatever skip-existing is. Under the
\* default options no file that existed before the run is modified.
C10_FileProtection ==
    /\ (gpc \in {"writing", "done", "failed"} /\ last.existed) =>
        /\ (~last.wrote) <=> (options.SkipExisting /\ ~options.Force)
        /\ ~last.wrote => (/\ last.target \in DOMAIN fs
                           /\ fs[last.target] = last.before)
        /\ last.wrote => (/\ last.target \in DOMAIN fs
                          /\ fs[last.target] # last.before)
        /\ options.Force => last.wrote
    /\ DefaultOptions =>
        \A p \in DOMAIN fs0 :
            /\ p \in DOMAIN fs
            /\ fs[p] = fs0[p]
            /\ p \notin written

C10_Witness ==
    /\ gpc = "writing"
    /\ last.target = f_goMod
    /\ last.existed
    /\ last.wrote
    /\ options.SkipExisting
    /\ options.Force
    /\ fs[f_goMod] = "GoModTemplate"

\* C11: whenever writeFile overwrites an existing target with the backup
\* option set, the sibling <target>.backup holds, after the write, the
\* content the target had before the write.
C11_BackupBeforeOverwrite ==
    (/\ gpc \in {"writing", "done", "failed"}
     /\ last.existed
     /\ last.wrote
     /\ options.CreateBackup) =>
        /\ backupPathOf(last.target) \in DOMAIN fs
        /\ fs[backupPathOf(last.target)] = last.before

\* C12: for every configuration, each file the run writes has an existing
\* parent directory at the time of the write, so no write fails for a
\* missing directory (a run fails only when the project description cannot
\* be loaded).
C12_ParentDirectoriesExist ==
    /\ (gpc = "writing" /\ calls # <<>>) =>
           Dir(fullPathOf(Head(calls).filename)) \in dirs
    /\ gpc = "failed" => cfgFile.state # "ok"

\* the directories that stood in the output directory before the run: the
\* ancestors of the files and the obstacles found there
DirsBefore ==
    UNION {Ancestors(p) : p \in DOMAIN fs0 \cup (dirs \cap PriorObstacles)}
        \cup (dirs \cap PriorObstacles)

\* C18: when the project description file cannot be read or is malformed,
\* the run returns an error and leaves the output directory unchanged: no
\* directory is created and no file is written, whatever the options are.
C18_FatalConfig ==
    cfgFile.state # "ok" =>
        /\ gpc \in {"start", "failed"}
        /\ fs = fs0
        /\ dirs = DirsBefore
        /\ written = {}
        /\ targets = {}
        /\ calls = <<>>

\* a malformed description has been rejected under options other than the
\* defaults, in an output directory that already holds files
C18_Witness ==
    /\ cfgFile.state = "malformed"
    /\ gpc = "failed"
    /\ options = [SkipExisting |-> FALSE, CreateBackup |-> TRUE, Force |-> TRUE]
    /\ fs0 # <<>>

\* a pending writeFile call that will execute its template: it is not
\* skipped as an existing file
WillRender(call) ==
    ~(/\ Exists(fullPathOf(call.filename), fs, dirs)
      /\ options.SkipExisting
      /\ ~options.Force)

\* C19: the stages run one after another without overlap: once the first
\* output file is on disk, the content of every output file has been
\* generated, so no pending call has its template still to execute; in the
\* config-driven pipeline all directories are created before any file is
\* written; in the analysis pipeline files are written only after the
\* whole result list has been generated.
C19_StagesInOrder ==
    /\ (gpc = "writing" /\ written # {}) =>
            \A k \in DOMAIN calls : ~WillRender(calls[k])
    /\ written # {} =>
            \A k \in DOMAIN createProjectStructure(cfgFile.config) :
                createProjectStructure(cfgFile.config)[k] \in dirs
    /\ (out.files # env0.files \/ out.dir # env0.dir) => pc = "written"

----------------------------------------------------------------------------
(* Properties of the output stage of the analysis-driven pipeline *)

\* the k-th generated file was written by writeFiles
WrittenAt(k) == report.trace[k].outcome = "written"

\* the target of the k-th generated file exists at the moment writeFiles
\* comes to it: it was there before, or the run has created it
ExistsWhenProcessed(k) ==
    \/ results[k].Filename \in DOMAIN env0.files
    \/ \E j \in 1..(k - 1) :
        WrittenAt(j) /\ results[j].Filename = results[k].Filename

\* the generated files written to a path, by position
WritersOf(f) == {k \in DOMAIN results : results[k].Filename = f /\ WrittenAt(k)}

\* the content a path must hold after the run: that of the last generated
\* file written to it, or what it held before
ExpectedContent(f) ==
    IF WritersOf(f) # {}
    THEN results[CHOOSE k \in WritersOf(f) : \A j \in WritersOf(f) : j <= k].Content
    ELSE env0.files[f]

\* C13: writeFiles processes the generated files in order; without -force it
\* skips every file whose target exists at the moment it is processed (a path
\* created earlier in the same run included) and leaves its content
\* unchanged; with -force every target is (over)written, unless the write
\* itself fails.
C13_WritePolicy ==
    pc = "written" =>
        /\ Len(report.trace) = Len(results)
        /\ \A k \in DOMAIN results :
            /\ report.trace[k].Filename = results[k].Filename
            /\ report.trace[k].existed = ExistsWhenProcessed(k)
            /\ ~flags.force =>
                   (report.trace[k].outcome = "skipped" <=> ExistsWhenProcessed(k))
            /\ flags.force =>
                /\ report.trace[k].outcome # "skipped"
                /\ WrittenAt(k) <=> results[k].Filename \notin env0.denied
        /\ DOMAIN out.files =
               DOMAIN env0.files \cup {results[k].Filename : k \in
                                          {j \in DOMAIN results : WrittenAt(j)}}
        /\ \A f \in DOMAIN out.files : out.files[f] = ExpectedContent(f)
        /\ ~flags.force =>
            /\ \A f \in DOMAIN env0.files : out.files[f] = env0.files[f]
            /\ \A f \in DOMAIN out.files : Cardinality(WritersOf(f)) <= 1

C13_Witness ==
    /\ pc = "written"
    /\ ~flags.force
    /\ s_factoryGenGo \in DOMAIN env0.files
    /\ out.files[s_factoryGenGo] = <<"prior">>
    /\ \E k \in DOMAIN results :
        /\ report.trace[k].outcome = "skipped"
        /\ results[k].Filename \notin DOMAIN env0.files

\* the lines logged for a file that could not be written
WriteErrors ==
    {k \in DOMAIN log : log[k][1] = "ERROR" /\ log[k][2] = "Failed to write"}

\* C14: a failure to write one output file is logged as an error and
\* counted, the remaining files are still processed, and the final summary
\* accounts for every generated file. The summary of main has the two counts
\* writeFiles returns, generated and skipped, and no count of failures.
C14_FailuresCounted ==
    pc = "written" =>
        /\ Len(report.trace) = Len(results)
        /\ Cardinality(WriteErrors)
               = Cardinality({k \in DOMAIN results :
                                 report.trace[k].outcome = "failed"})
        /\ report.written + report.skipped = Len(results)

C29_DistinctFilenames ==
    /\ pc \in {"generated", "listed", "written"} =>
           \A j, k \in DOMAIN results :
               j # k => results[j].Filename # results[k].Filename
    /\ (pc = "written" /\ env0.files = <<>> /\ env0.denied = {}) =>
           \A k \in DOMAIN results : WrittenAt(k)

----------------------------------------------------------------------------
(* Analyzer: build tags and the conditional-inclusion filter *)

s_goBuild == <<"/","/","g","o",":","b","u","i","l","d">>
s_plusBuild == <<"/","/"," ","+","b","u","i","l","d">>
s_comma == <<",">>
t_integration == <<"i","n","t","e","g","r","a","t","i","o","n">>
t_linuxIntegration == <<"l","i","n","u","x",",","i","n","t","e","g","r","a","t","i","o","n">>
t_spaced == <<" ","l","i","n","u","x"," ",","," ","d","a","r","w","i","n">>
t_e2e == <<"e","2","e">>
l_package == <<"p","a","c","k","a","g","e"," ","r","e","p","o">>
l_comment == <<"/","/"," ","P","a","c","k","a","g","e"," ","r","e","p","o"," ","h","o","l","d","s"," ","t","h","e"," ","r","e","p","o","s","i","t","o","r","i","e","s",".">>
l_goBuildIntegration == <<"/","/","g","o",":","b","u","i","l","d"," ","i","n","t","e","g","r","a","t","i","o","n">>
l_plusBuildLinux == <<"/","/"," ","+","b","u","i","l","d"," ","l","i","n","u","x">>
l_indentedGoBuild == <<" "," ","/","/","g","o",":","b","u","i","l","d"," ","w","i","n","d","o","w","s">>

\* strings.Split on a one-character separator
RECURSIVE splitFrom(_, _, _, _)
splitFrom(s, sep, i, cur) ==
    IF i > Len(s) THEN <<cur>>
    ELSE IF s[i] = sep THEN <<cur>> \o splitFrom(s, sep, i + 1, <<>>)
    ELSE splitFrom(s, sep, i + 1, Append(cur, s[i]))

Split(s, sep) == splitFrom(s, sep, 1, <<>>)

\* strings.TrimSpace
RECURSIVE TrimSpace(_)
TrimSpace(s) ==
    IF s = <<>> THEN s
    ELSE IF Head(s) \in Whitespace THEN TrimSpace(Tail(s))
    ELSE IF s[Len(s)] \in Whitespace THEN TrimSpace(SubSeq(s, 1, Len(s) - 1))
    ELSE s

\* analyzer.New: the buildTags of the analyzer made for a value of -tags
buildTagsOf(tags) ==
    IF tags # <<>>
    THEN [i \in DOMAIN Split(tags, ",") |-> TrimSpace(Split(tags, ",")[i])]
    ELSE <<>>

\* the loop of shouldIncludeFile from the line of (zero-based) index i on
RECURSIVE scanLines(_, _, _)
scanLines(lines, i, buildTags) ==
    IF i + 1 > Len(lines) \/ i > 10 THEN TRUE
    ELSE LET line == TrimSpace(lines[i + 1]) IN
         IF HasPrefix(line, s_goBuild) \/ HasPrefix(line, s_plusBuild)
         THEN \E k \in DOMAIN buildTags : Contains(line, buildTags[k])
         ELSE scanLines(lines, i + 1, buildTags)

\* Analyzer.shouldIncludeFile; file.err says that os.ReadFile fails
shouldIncludeFile(buildTags, file) ==
    IF Len(buildTags) = 0 THEN TRUE
    ELSE IF file.err THEN TRUE
    ELSE scanLines(file.lines, 0, buildTags)

----------------------------------------------------------------------------
(* Specification SpecInclude: shouldIncludeFile on one file *)

\* the values of the flag -tags
TagArgs == {<<>>, t_integration, t_linuxIntegration, t_spaced, t_e2e, s_comma}

\* the lines that declare a build constraint
ConstraintLines == {l_goBuildIntegration, l_plusBuildLinux, l_indentedGoBuild}

\* how many comment lines may stand before the constraint line
LeadIns == {0, 1, 10, 11}

CommentLines(n) == [k \in 1..n |-> l_comment]

\* the source files: without a constraint, with one after some comment
\* lines, with two, and one that cannot be read
SourceTexts ==
    {[err |-> FALSE, lines |-> <<l_comment, l_package>>],
     [err |-> FALSE, lines |-> <<l_goBuildIntegration, l_plusBuildLinux, l_package>>],
     [err |-> TRUE, lines |-> <<>>]}
    \cup {[err |-> FALSE, lines |-> CommentLines(n) \o <<c, l_package>>] :
             n \in LeadIns, c \in ConstraintLines}

InitInclude ==
    /\ tagsArg \in TagArgs
    /\ srcLines \in SourceTexts
    /\ included = [done |-> FALSE, value |-> FALSE]
    /\ funcType = [Params |-> <<>>, Results |-> <<>>]
    /\ methodInfo = [done |-> FALSE]
    /\ IdleN
    /\ IdleT
    /\ IdleB
    /\ IdleA
    /\ IdleW
    /\ IdleP

\* analyzeFile asks an analyzer made by New(logger, tags) about the file
ShouldInclude ==
    /\ ~included.done
    /\ included' = [done |-> TRUE,
                    value |-> shouldIncludeFile(buildTagsOf(tagsArg), srcLines)]
    /\ UNCHANGED <<tagsArg, srcLines, funcType, methodInfo,
                   varsN, varsT, varsB, varsA, varsW, varsP>>

NextInclude == ShouldInclude

SpecInclude == InitInclude /\ [][NextInclude]_vars

\* the leading lines of a file, those shouldIncludeFile looks at
LeadingLines(lines) == SubSeq(lines, 1, IF Len(lines) < 11 THEN Len(lines) ELSE 11)

\* a line that declares a build constraint
DeclaresConstraint(line) ==
    \/ HasPrefix(TrimSpace(line), s_goBuild)
    \/ HasPrefix(TrimSpace(line), s_plusBuild)

\* the positions of the constraint lines among the leading lines
ConstraintPositions ==
    {k \in DOMAIN LeadingLines(srcLines.lines) :
        DeclaresConstraint(srcLines.lines[k])}

\* C16: a file with no build-constraint line among its leading lines is
\* always included; a file whose leading lines declare a build constraint is
\* included only if at least one configured tag occurs as a substring of that
\* constraint line, for every configured tag list, the empty one included.
C16_ConditionalInclusion ==
    (included.done /\ ~srcLines.err) =>
        IF ConstraintPositions = {} THEN included.value
        ELSE included.value <=>
                \E k \in DOMAIN buildTagsOf(tagsArg) :
                    Contains(srcLines.lines[Min(ConstraintPositions)],
                             buildTagsOf(tagsArg)[k])

----------------------------------------------------------------------------
(* Method extraction: Analyzer.extractMethodInfo *)

s_err == <<"e","r","r">>
s_n == <<"n">>
s_ctx == <<"c","t","x">>
s_id == <<"i","d">>
s_Save == <<"S","a","v","e">>

\* ast.Field: the names declared together and their type
Field(names, type) == [Names |-> names, Type |-> type]

\* types.ParamInfo
ParamInfo(name, type) == [Name |-> name, Type |-> type]

\* the entries one field adds to a parameter or return list: one for each
\* name, or one without a name
entriesOf(field) ==
    IF Len(field.Names) > 0
    THEN [k \in 1..Len(field.Names) |->
             ParamInfo(field.Names[k], typeToString(field.Type))]
    ELSE <<ParamInfo(<<>>, typeToString(field.Type))>>

\* the loop over funcType.Params.List
RECURSIVE extractParams(_, _, _)
extractParams(list, i, method) ==
    IF i > Len(list) THEN method
    ELSE extractParams(list, i + 1,
            [method EXCEPT
                !.HasContext = @ \/ Contains(typeToString(list[i].Type), s_Context),
                !.Params = @ \o entriesOf(list[i])])

\* the loop over funcType.Results.List
RECURSIVE extractResults(_, _, _)
extractResults(list, i, method) ==
    IF i > Len(list) THEN method
    ELSE extractResults(list, i + 1,
            [method EXCEPT
                !.HasError = @ \/ typeToString(list[i].Type) = s_error,
                !.Returns = @ \o entriesOf(list[i])])

\* Analyzer.extractMethodInfo
extractMethodInfo(name, ft) ==
    extractResults(ft.Results, 1,
        extractParams(ft.Params, 1,
            [Name |-> name, Params |-> <<>>, Returns |-> <<>>,
             HasContext |-> FALSE, HasError |-> FALSE]))

s_return == <<"r","e","t","u","r","n"," ">>
s_commaSp == <<","," ">>

\* the explanatory comment block writeMethodBody writes for a layer
commentBlock(layer) ==
    CASE layer = RepositoryLayer -> "Example database operation"
      [] layer = UseCaseLayer -> "Example business logic"
      [] layer = HandlerLayer -> "Example HTTP handler"
      [] OTHER -> ""

\* the zero values of the entries of a return list, in order
RECURSIVE returnValues(_)
returnValues(returns) ==
    IF returns = <<>> THEN <<>>
    ELSE <<generateZeroValue(Head(returns).Type)>> \o returnValues(Tail(returns))

\* A plausible slip: named results are left to a bare return statement, a
\* value is supplied only for the results without a name.
writeMethodBodyBareReturn(method, layer) ==
    LET unnamed == SelectSeq(method.Returns, LAMBDA r : r.Name = <<>>) IN
    [done |-> TRUE,
     todo |-> method.Name,
     comment |-> commentBlock(layer),
     hasReturn |-> Len(method.Returns) > 0,
     values |-> returnValues(unnamed),
     line |-> IF Len(method.Returns) > 0
              THEN s_return \o Join(returnValues(unnamed), s_commaSp)
              ELSE <<>>]

\* Generator.writeMethodBody: the TODO line, the comment block of the layer
\* and the return statement
writeMethodBody(method, layer) ==
    [done |-> TRUE,
     todo |-> method.Name,
     comment |-> commentBlock(layer),
     hasReturn |-> Len(method.Returns) > 0,
     values |-> returnValues(method.Returns),
     line |-> IF Len(method.Returns) > 0
              THEN s_return \o Join(returnValues(method.Returns), s_commaSp)
              ELSE <<>>]

----------------------------------------------------------------------------
(* Specification SpecMethods: extractMethodInfo on one method *)

\* the longest list of result fields
MaxResults == 2

\* the types of the results
ResultTypes == {Ident(s_error), Ident(s_int), StarExpr(Ident(s_User))}

\* the names one result field declares: none, one or two
ResultNames == {<<>>, <<s_err>>, <<s_n, s_err>>}

\* a field list names all of its fields or none of them
UniformlyNamed(list) ==
    \A j, k \in DOMAIN list : (list[j].Names = <<>>) <=> (list[k].Names = <<>>)

ResultLists ==
    {list \in UNION {[1..len -> {Field(n, t) : n \in ResultNames, t \in ResultTypes}] :
                        len \in 0..MaxResults} :
        UniformlyNamed(list)}

ParamLists ==
    {<<>>,
     <<Field(<<s_ctx>>, SelectorExpr(Ident(s_context), s_Context))>>,
     <<Field(<<s_ctx>>, SelectorExpr(Ident(s_context), s_Context)),
       Field(<<s_id>>, Ident(s_int))>>,
     <<Field(<<>>, Ident(s_string))>>}

InitMethods ==
    /\ funcType \in [Params : ParamLists, Results : ResultLists]
    /\ methodInfo = [done |-> FALSE]
    /\ tagsArg = <<>>
    /\ srcLines = <<>>
    /\ included = [done |-> FALSE, value |-> FALSE]
    /\ IdleN
    /\ IdleT
    /\ IdleB
    /\ IdleA
    /\ IdleW
    /\ IdleP

\* extractInterface calls extractMethodInfo for each method of the interface
ExtractMethod ==
    /\ ~methodInfo.done
    /\ methodInfo' = [done |-> TRUE, info |-> extractMethodInfo(s_Save, funcType)]
    /\ UNCHANGED <<tagsArg, srcLines, included, funcType,
                   varsN, varsT, varsB, varsA, varsW, varsP>>

\* writeMethodImplementation calls writeMethodBody for the method of an
\* interface of some layer
WriteMethodBody ==
    /\ methodInfo.done
    /\ ~stub.done
    /\ \E layer \in LayerType : stub' = writeMethodBody(methodInfo.info, layer)
    /\ UNCHANGED <<walkPath, walked, answers, cta,
                   varsN, varsT, varsB, varsA, varsW, varsM>>

NextMethods == ExtractMethod \/ WriteMethodBody

SpecMethods == InitMethods /\ [][NextMethods]_vars

\* C17: HasError is set exactly when the final entry of the method's return
\* list has the encoded type "error"; it is unset for a method with no
\* returns or whose last return is not "error".
C17_HasErrorIffLastIsError ==
    methodInfo.done =>
        (methodInfo.info.HasError <=>
            /\ methodInfo.info.Returns # <<>>
            /\ methodInfo.info.Returns[Len(methodInfo.info.Returns)].Type = s_error)

----------------------------------------------------------------------------
(* The walk filter of Analyzer.AnalyzeProject *)

s_testGo == <<"_","t","e","s","t",".","g","o">>
s_vendorSlash == <<"v","e","n","d","o","r","/">>
s_gitSlash == <<".","g","i","t","/">>
s_testdataSlash == <<"t","e","s","t","d","a","t","a","/">>
s_slash == <<"/">>
w_vendor == <<"v","e","n","d","o","r">>
w_myvendor == <<"m","y","v","e","n","d","o","r">>
w_internalVendor == <<"i","n","t","e","r","n","a","l","/","v","e","n","d","o","r">>
w_git == <<".","g","i","t">>
w_xgit == <<"x",".","g","i","t">>
w_testdata == <<"t","e","s","t","d","a","t","a">>
w_mytestdata == <<"m","y","t","e","s","t","d","a","t","a">>
w_pkg == <<"p","k","g">>
w_aGo == <<"a",".","g","o">>
w_aTestGo == <<"a","_","t","e","s","t",".","g","o">>
w_aGenGo == <<"a",".","g","e","n",".","g","o">>
w_aTxt == <<"a",".","t","x","t">>
w_vendorGo == <<"v","e","n","d","o","r",".","g","o">>
w_go == <<"g","o">>
w_testGoOnly == <<"_","t","e","s","t",".","g","o">>

\* the test of the walk callback: the path is passed over
skipsPath(path) ==
    \/ ~HasSuffix(path, s_dotGo)
    \/ HasSuffix(path, s_testGo)
    \/ HasSuffix(path, s_genGo)
    \/ Contains(path, s_vendorSlash)
    \/ Contains(path, s_gitSlash)
    \/ Contains(path, s_testdataSlash)

\* the callback of filepath.Walk on the path of a file: it returns nil for a
\* path it passes over and hands every other path to analyzeFile
walkCallback(path) ==
    IF skipsPath(path)
    THEN [done |-> TRUE, analyzed |-> FALSE]
    ELSE [done |-> TRUE, analyzed |-> TRUE]

----------------------------------------------------------------------------
(* Specification SpecWalk: the walk callback on one file of the project *)

\* the directories of the project, relative to its root (the empty one is
\* the root itself)
WalkDirs ==
    {<<>>, w_vendor, w_myvendor, w_internalVendor, w_git, w_xgit, w_testdata,
     w_mytestdata, w_pkg}

\* the names of the files
WalkFileNames ==
    {w_aGo, w_aTestGo, w_aGenGo, w_aTxt, w_vendorGo, w_go, w_testGoOnly}

\* filepath.Join of a directory and a file name
JoinPath(dir, name) == IF dir = <<>> THEN name ELSE dir \o s_slash \o name

WalkPaths == {JoinPath(d, f) : d \in WalkDirs, f \in WalkFileNames}

InitWalk ==
    /\ walkPath \in WalkPaths
    /\ walked = [done |-> FALSE]
    /\ stub = [done |-> FALSE]
    /\ answers = [dbChoice |-> <<>>, domainCount |-> <<>>]
    /\ cta = [done |-> FALSE]
    /\ IdleN
    /\ IdleT
    /\ IdleB
    /\ IdleA
    /\ IdleW
    /\ IdleM

\* filepath.Walk calls the callback for the file
WalkCallback ==
    /\ ~walked.done
    /\ walked' = walkCallback(walkPath)
    /\ UNCHANGED <<walkPath, stub, answers, cta,
                   varsN, varsT, varsB, varsA, varsW, varsM>>

NextWalk == WalkCallback

SpecWalk == InitWalk /\ [][NextWalk]_vars

\* the components of a path: its directories and, last, the file name
PathParts(path) == Split(path, "/")

\* the directories a file is located in
PathDirs(path) ==
    {PathParts(path)[k] : k \in 1..(Len(PathParts(path)) - 1)}

FileNameOf(path) == PathParts(path)[Len(PathParts(path))]

\* C21: the walk analyzes a file if and only if it is a Go source file that
\* is not a test file, not a previously generated file, and not located
\* inside a directory named vendor, .git or testdata; a file in a directory
\* whose name merely ends in one of these names is analyzed.
C21_WalkFilter ==
    walked.done =>
        (walked.analyzed <=>
            /\ HasSuffix(FileNameOf(walkPath), s_dotGo)
            /\ ~HasSuffix(FileNameOf(walkPath), s_testGo)
            /\ ~HasSuffix(FileNameOf(walkPath), s_genGo)
            /\ PathDirs(walkPath) \cap {w_vendor, w_git, w_testdata} = {})

----------------------------------------------------------------------------
(* C23 *)

\* the entries a result list declares, one for each name of a field or one
\* for a field without names, as types in declaration order
RECURSIVE DeclaredReturnTypes(_)
DeclaredReturnTypes(list) ==
    IF list = <<>> THEN <<>>
    ELSE [k \in 1..(IF Head(list).Names = <<>> THEN 1 ELSE Len(Head(list).Names))
             |-> typeToString(Head(list).Type)]
         \o DeclaredReturnTypes(Tail(list))

\* C23: the return statement of a generated stub supplies exactly one
\* zero-value literal per entry of the method's return list, in declaration
\* order, and a method without declared returns gets no return statement.
C23_ReturnPerEntry ==
    stub.done =>
        LET types == DeclaredReturnTypes(funcType.Results) IN
        /\ Len(methodInfo.info.Returns) = Len(types)
        /\ stub.hasReturn <=> types # <<>>
        /\ Len(stub.values) = Len(types)
        /\ \A k \in DOMAIN types : stub.values[k] = generateZeroValue(types[k])
        /\ stub.line = IF types = <<>> THEN <<>>
                       ELSE s_return \o Join(stub.values, s_commaSp)

\* the stub of a method with the results (n, err *User, err error): a field
\* with two names and a field with one give three literals
C23_Witness ==
    /\ stub.done
    /\ Len(funcType.Results) = 2
    /\ funcType.Results[1] = Field(<<s_n, s_err>>, StarExpr(Ident(s_User)))
    /\ funcType.Results[2] = Field(<<s_err>>, Ident(s_int))
    /\ stub.values = <<s_nil, s_nil, s_zero>>
    /\ stub.line = s_return \o s_nil \o s_commaSp \o s_nil \o s_commaSp \o s_zero

----------------------------------------------------------------------------
(* The command init: initProject and generateDefaultDomains *)

s_both == <<"b","o","t","h">>
e_Profile == <<"P","r","o","f","i","l","e">>
e_Category == <<"C","a","t","e","g","o","r","y">>
e_OrderItem == <<"O","r","d","e","r","I","t","e","m">>
e_Auth == <<"A","u","t","h">>
e_Session == <<"S","e","s","s","i","o","n">>
e_Token == <<"T","o","k","e","n">>
e_Notification == <<"N","o","t","i","f","i","c","a","t","i","o","n">>
e_Template == <<"T","e","m","p","l","a","t","e">>

\* the decimal digits, each at the position of its value plus one
Digits == <<"0", "1", "2", "3", "4", "5", "6", "7", "8", "9">>

IsDigit(c) == \E k \in DOMAIN Digits : Digits[k] = c

DigitValue(c) == (CHOOSE k \in DOMAIN Digits : Digits[k] = c) - 1

RECURSIVE digitsValue(_, _)
digitsValue(s, acc) ==
    IF s = <<>> THEN acc
    ELSE digitsValue(Tail(s), acc * 10 + DigitValue(Head(s)))

\* strconv.Atoi: an optional sign and one or more decimal digits
Atoi(s) ==
    LET signed == s # <<>> /\ Head(s) \in {"+", "-"}
        digits == IF signed THEN Tail(s) ELSE s
    IN  IF digits = <<>> \/ \E k \in DOMAIN digits : ~IsDigit(digits[k])
        THEN [err |-> TRUE, value |-> 0]
        ELSE [err |-> FALSE,
              value |-> IF signed /\ Head(s) = "-"
                        THEN 0 - digitsValue(digits, 0)
                        ELSE digitsValue(digits, 0)]

\* the domain templates of generateDefaultDomains
domainTemplates ==
    <<[name |-> s_User, entities |-> <<s_User, e_Profile>>,
       usecases |-> <<"CreateUser", "GetUser", "UpdateUser", "DeleteUser",
                      "GetUserProfile", "UpdateProfile">>],
      [name |-> s_Product, entities |-> <<s_Product, e_Category>>,
       usecases |-> <<"CreateProduct", "GetProduct", "UpdateProduct",
                      "DeleteProduct", "ListProducts", "GetProductsByCategory">>],
      [name |-> s_Order, entities |-> <<s_Order, e_OrderItem>>,
       usecases |-> <<"CreateOrder", "GetOrder", "UpdateOrder", "CancelOrder",
                      "ListOrders", "GetOrderHistory">>],
      [name |-> e_Auth, entities |-> <<e_Session, e_Token>>,
       usecases |-> <<"Login", "Logout", "RefreshToken", "ValidateToken",
                      "ResetPassword">>],
      [name |-> e_Notification, entities |-> <<e_Notification, e_Template>>,
       usecases |-> <<"SendNotification", "GetNotifications", "MarkAsRead",
                      "CreateTemplate", "UpdateTemplate">>]>>

\* the database of the repositories of the i-th domain (i counts from 0):
\* with both databases the domains alternate between the two
repoDbTypeOf(i, dbType) ==
    IF dbType = s_both
    THEN (IF i % 2 = 0 THEN s_postgres ELSE s_mongodb)
    ELSE dbType

\* the domain built from the i-th template, its repositories on a database
defaultDomain(i, repoDbType) ==
    LET template == domainTemplates[i + 1] IN
    [Name |-> template.name,
     Entities |-> template.entities,
     Repositories |->
        [k \in DOMAIN template.entities |->
            [Name |-> template.entities[k] \o s_Repository,
             Entity |-> template.entities[k],
             Database |-> repoDbType]],
     UseCases |-> template.usecases,
     Handlers |-> <<[Name |-> template.name \o s_Handler,
                    UseCases |-> template.usecases]>>]

\* A plausible slip: with both databases the repositories keep the type
\* "both" instead of alternating between the two.
generateDefaultDomainsNoAlternation(count, dbType) ==
    [k \in 1..(IF count < Len(domainTemplates) THEN count
               ELSE Len(domainTemplates)) |->
        defaultDomain(k - 1, dbType)]

\* generateDefaultDomains
generateDefaultDomains(count, dbType) ==
    [k \in 1..(IF count < Len(domainTemplates) THEN count
               ELSE Len(domainTemplates)) |->
        defaultDomain(k - 1, repoDbTypeOf(k - 1, dbType))]

\* initProject: the database type chosen at the prompt
databaseTypeOf(line) ==
    LET dbChoice == TrimSpace(line) IN
    IF dbChoice = <<"1">> THEN s_postgres
    ELSE IF dbChoice = <<"2">> THEN s_mongodb
    ELSE IF dbChoice = <<"3">> THEN s_both
    ELSE s_postgres

\* initProject: the number of domains asked for at the prompt
domainCountOf(line) ==
    LET parsed == Atoi(TrimSpace(line)) IN
    IF parsed.err \/ parsed.value < 1 \/ parsed.value > 5 THEN 2
    ELSE parsed.value

\* initProject: the configuration saved to cta.json (the project, server
\* and event settings are not modelled)
initProject(typed) ==
    [done |-> TRUE,
     config |->
        [Database |-> [Type |-> databaseTypeOf(typed.dbChoice)],
         Domains |-> generateDefaultDomains(domainCountOf(typed.domainCount),
                                            databaseTypeOf(typed.dbChoice))]]

----------------------------------------------------------------------------
(* Specification SpecInit: the command init *)

\* the lines typed at the database prompt
DatabaseLines == {<<"1">>, <<"2">>, <<"3">>, <<>>, <<"4">>, <<" ", "3">>}

\* the lines typed at the domain-count prompt, each with the number of
\* domains it asks for (0 when it is not an integer from 1 to 5)
DomainCountLines ==
    {[text |-> <<"1">>, asks |-> 1], [text |-> <<"2">>, asks |-> 2],
     [text |-> <<"3">>, asks |-> 3], [text |-> <<"4">>, asks |-> 4],
     [text |-> <<"5">>, asks |-> 5], [text |-> <<" ", "4", " ">>, asks |-> 4],
     [text |-> <<"0">>, asks |-> 0], [text |-> <<"6">>, asks |-> 0],
     [text |-> <<"1", "2">>, asks |-> 0], [text |-> <<"-", "1">>, asks |-> 0],
     [text |-> <<>>, asks |-> 0], [text |-> <<"x">>, asks |-> 0],
     [text |-> <<"2", "x">>, asks |-> 0], [text |-> <<"3", ".", "0">>, asks |-> 0]}

InitInit ==
    /\ answers \in {[dbChoice |-> d, domainCount |-> c.text] :
                        d \in DatabaseLines, c \in DomainCountLines}
    /\ cta = [done |-> FALSE]
    /\ walkPath = <<>>
    /\ walked = [done |-> FALSE]
    /\ stub = [done |-> FALSE]
    /\ IdleN
    /\ IdleT
    /\ IdleB
    /\ IdleA
    /\ IdleW
    /\ IdleM

\* the command init runs to its end and saves cta.json
InitProject ==
    /\ ~cta.done
    /\ cta' = initProject(answers)
    /\ UNCHANGED <<walkPath, walked, stub, answers,
                   varsN, varsT, varsB, varsA, varsW, varsM>>

NextInit == InitProject

SpecInit == InitInit /\ [][NextInit]_vars

\* the number of domains the typed line asks for
AskedCount ==
    (CHOOSE c \in DomainCountLines : c.text = answers.domainCount).asks

\* the elements of a sequence
Range(seq) == {seq[k] : k \in DOMAIN seq}

\* C27: the project description init produces satisfies the data-model
\* invariants for every domain count and every database choice: the entity
\* of each repository is an entity of the same domain, the use cases of each
\* handler are use cases of that domain, the backing store of each
\* repository is postgres or mongodb, and there are as many domains as asked
\* for, or 2 when the line typed is not an integer from 1 to 5.
C27_InitInvariants ==
    cta.done =>
        LET domains == cta.config.Domains IN
        /\ Len(domains) = IF AskedCount = 0 THEN 2 ELSE AskedCount
        /\ \A i \in DOMAIN domains :
            /\ Len(domains[i].Repositories) = Len(domains[i].Entities)
            /\ \A r \in Range(domains[i].Repositories) :
                /\ r.Entity \in Range(domains[i].Entities)
                /\ r.Name = r.Entity \o s_Repository
                /\ r.Database \in {s_postgres, s_mongodb}
                /\ cta.config.Database.Type # s_both =>
                       r.Database = cta.config.Database.Type
            /\ \A h \in Range(domains[i].Handlers) :
                   Range(h.UseCases) \subseteq Range(domains[i].UseCases)
            /\ \A j \in DOMAIN domains : domains[j].Name = domains[i].Name => j = i

\* five domains over both databases: the first is backed by postgres, the
\* second by mongodb
C27_Witness ==
    /\ cta.done
    /\ answers.dbChoice = <<"3">>
    /\ answers.domainCount = <<"5">>
    /\ Len(cta.config.Domains) = 5
    /\ cta.config.Database.Type = s_both
    /\ cta.config.Domains[1].Repositories[1].Database = s_postgres
    /\ cta.config.Domains[2].Repositories[2].Database = s_mongodb

====
